---------------------------- MODULE Spec2Model ----------------------------
(***************************************************************************)
(* A model of sql/sql_view.cc: the view definition lifecycle               *)
(* (mysql_create_view, mysql_register_view, mysql_drop_view,               *)
(* mysql_frm_type) run by concurrent connection threads over the shared    *)
(* directory of .frm files, and view resolution (mysql_make_view).         *)
(***************************************************************************)
EXTENDS Naturals, Integers, Sequences, FiniteSets, TLC

(***************************************************************************)
(* Bounds of the model.                                                    *)
(***************************************************************************)
\* a call on a view is started only while its persisted revision is below this
MaxRev == 3
\* longest list of names given to one DROP VIEW
MaxDropList == 2

\* the connection threads
Threads == {"t1", "t2"}
\* the qualified names (one schema)
Names == {"v1", "v2"}
NoThread == "none"

\* enum_view_create_mode
VIEW_CREATE_NEW == "VIEW_CREATE_NEW"
VIEW_ALTER == "VIEW_ALTER"
VIEW_CREATE_OR_REPLACE == "VIEW_CREATE_OR_REPLACE"
Modes == {VIEW_CREATE_NEW, VIEW_ALTER, VIEW_CREATE_OR_REPLACE}

\* view algorithms and check options
VIEW_ALGORITHM_UNDEFINED == "UNDEFINED"
VIEW_ALGORITHM_TMPTABLE == "TMPTABLE"
VIEW_ALGORITHM_MERGE == "MERGE"
Algorithms == {VIEW_ALGORITHM_UNDEFINED, VIEW_ALGORITHM_TMPTABLE, VIEW_ALGORITHM_MERGE}
VIEW_CHECK_NONE == "NONE"
VIEW_CHECK_LOCAL == "LOCAL"
VIEW_CHECK_CASCADED == "CASCADED"
CheckOptions == {VIEW_CHECK_NONE, VIEW_CHECK_LOCAL, VIEW_CHECK_CASCADED}

\* frm_type_enum
FRMTYPE_ERROR == "FRMTYPE_ERROR"
FRMTYPE_TABLE == "FRMTYPE_TABLE"
FRMTYPE_VIEW == "FRMTYPE_VIEW"

(***************************************************************************)
(* The .frm files.  A file is absent ("none"), a view definition written   *)
(* by sql_create_definition_file ("view", with its revision), a file of    *)
(* another object whose first sizeof(header) bytes are not the view        *)
(* marker ("table"), or a file shorter than the header that is not a view  *)
(* definition either ("short").                                            *)
(***************************************************************************)
NoFile == [kind |-> "none", revision |-> 0]
TableFile == [kind |-> "table", revision |-> 0]
ShortFile == [kind |-> "short", revision |-> 0]
ViewFile(r) == [kind |-> "view", revision |-> r]

VARIABLES
  store,        \* Names -> file: the directory of .frm files
  LOCK_open,    \* the thread holding the LOCK_open mutex, or NoThread
  protect_against_global_read_lock, \* threads inside the wait_if/start_waiting bracket
  th,           \* Threads -> the thread's call: position and locals
  bad_unlock,   \* a mutex was unlocked by a thread that did not hold it
  entry_store,  \* the store as it was when the latest call began
  frm_params,   \* Names -> the parameters written in the view's .frm
  table,        \* the TABLE_LIST node mysql_make_view is called on
  old_lex,      \* the LEX of the statement that uses the view
  thd,          \* the THD fields mysql_make_view touches
  heap,         \* the link fields of the TABLE_LIST objects
  view_frm,     \* the stored definition mysql_make_view reads
  mk,           \* the call of mysql_make_view: position, locals, result
  frm_query,    \* Names -> the tables the query written in the view's .frm selects from
  cv,           \* a call of mysql_create_view followed through its table list
  kv,           \* a call of check_key_in_view: what it reads, what it returns
  iv,           \* a call of insert_view_fields: what it reads, the list, the result
  cs            \* a call of view_checksum: the node it reads, the result

lifecycle_vars == <<store, LOCK_open, protect_against_global_read_lock, th,
                    bad_unlock, entry_store, frm_params>>
resolve_vars == <<table, old_lex, thd, heap, view_frm, mk>>
open_vars == <<frm_query, cv>>
update_vars == <<kv, iv, cs>>
analysis_vars == <<open_vars, update_vars>>
vars == <<lifecycle_vars, resolve_vars, analysis_vars>>

\* the values view->timestamp may hold when the file is written
MaxTime == 2
Times == 1..MaxTime
(* The parameters of view_parameters[] (lines 338-359) kept of a view's    *)
(* file besides the revision; a file that is no view has none.             *)
NoParameters ==
  [updatable_view |-> FALSE, algorithm |-> "-", with_check |-> "-", timestamp |-> 0]
\* an updatable view without check option, written at time 1
InitialParameters ==
  [updatable_view |-> TRUE, algorithm |-> VIEW_ALGORITHM_UNDEFINED,
   with_check |-> VIEW_CHECK_NONE, timestamp |-> 1]
InitialFrmParams(files) ==
  [n \in Names |-> IF files[n].kind = "view" THEN InitialParameters ELSE NoParameters]

\* no statement is using a view
NoStatement == <<>>
ResolveUnused ==
  /\ table = NoStatement /\ old_lex = NoStatement /\ thd = NoStatement
  /\ heap = NoStatement /\ view_frm = NoStatement /\ mk = NoStatement
\* no statement is followed through its table list
UpdateUnused ==
  /\ kv = NoStatement /\ iv = NoStatement /\ cs = NoStatement
AnalysisUnused ==
  /\ frm_query = NoStatement /\ cv = NoStatement
  /\ UpdateUnused

(***************************************************************************)
(* A thread's call.  pc is the position in the call; the other fields are  *)
(* the locals of mysql_create_view / mysql_register_view / mysql_drop_view *)
(* and the THD fields they touch.  dirty, open_held and grl_held record    *)
(* what the call has done so far: whether it changed the store, and how    *)
(* many times it locked minus unlocked each lock.                          *)
(***************************************************************************)
Blank ==
  [pc |-> "idle", op |-> "none", mode |-> VIEW_CREATE_NEW, name |-> "-",
   rest |-> <<>>, if_exists |-> FALSE, type |-> FALSE,
   revision |-> 0, report_error |-> FALSE,
   ret |-> "none", err |-> "none", dirty |-> FALSE, nwarn |-> 0,
   ninval |-> 0, linked |-> TRUE, open_held |-> 0, grl_held |-> 0]

Init ==
  /\ store \in [Names -> {NoFile, TableFile, ShortFile, ViewFile(1)}]
  /\ LOCK_open = NoThread
  /\ protect_against_global_read_lock = 0
  /\ th = [t \in Threads |-> Blank]
  /\ bad_unlock = FALSE
  /\ entry_store = store
  /\ frm_params = InitialFrmParams(store)
  /\ ResolveUnused
  /\ AnalysisUnused

\* a thread between two statements
AtRest(t) == th[t].pc \in {"idle", "done"}

(***************************************************************************)
(* The statement given to CREATE / ALTER VIEW, as far as the checks of     *)
(* mysql_create_view read it.                                              *)
(***************************************************************************)
GoodStatement ==
  [proc_or_result |-> FALSE,   \* lex->proc_list.first || lex->result
   derived_or_vars |-> FALSE,  \* derived tables, variables or parameters
   create_priv |-> TRUE,       \* CREATE_VIEW_ACL on the view
   drop_priv |-> TRUE,         \* DROP_ACL on the view
   table_access |-> TRUE,      \* some access on every table of the selects
   subq_access |-> TRUE,       \* SELECT_ACL on the tables of subqueries
   open_ok |-> TRUE,           \* open_and_lock_tables succeeds
   tmp_table |-> FALSE,        \* a temporary table is used
   self_ref |-> FALSE,         \* an opened table is this very view
   prepare_ok |-> TRUE,        \* unit->prepare succeeds
   view_list |-> <<>>,         \* the list of view field names
   items |-> <<"a", "b">>,     \* the names of the select list
   col_priv_excess |-> FALSE]  \* the view column has more privileges

Statements ==
  { GoodStatement,
    [GoodStatement EXCEPT !.proc_or_result = TRUE],
    [GoodStatement EXCEPT !.derived_or_vars = TRUE],
    [GoodStatement EXCEPT !.create_priv = FALSE],
    [GoodStatement EXCEPT !.drop_priv = FALSE],
    [GoodStatement EXCEPT !.table_access = FALSE],
    [GoodStatement EXCEPT !.subq_access = FALSE],
    [GoodStatement EXCEPT !.open_ok = FALSE],
    [GoodStatement EXCEPT !.tmp_table = TRUE],
    [GoodStatement EXCEPT !.self_ref = TRUE],
    [GoodStatement EXCEPT !.prepare_ok = FALSE],
    [GoodStatement EXCEPT !.view_list = <<"x", "y">>],
    [GoodStatement EXCEPT !.view_list = <<"x">>],
    [GoodStatement EXCEPT !.view_list = <<"x", "x">>],
    [GoodStatement EXCEPT !.items = <<"a", "a">>],
    [GoodStatement EXCEPT !.items = <<"a", "a">>, !.view_list = <<"x", "y">>],
    [GoodStatement EXCEPT !.items = <<"a">>],
    [GoodStatement EXCEPT !.items = <<"a", "b", "a">>],
    [GoodStatement EXCEPT !.items = <<"a", "b", "b">>],
    [GoodStatement EXCEPT !.items = <<"a", "b", "c">>, !.view_list = <<"x", "y", "x">>],
    [GoodStatement EXCEPT !.items = <<"a", "b", "a">>, !.view_list = <<"x", "y", "z">>],
    [GoodStatement EXCEPT !.col_priv_excess = TRUE],
    [GoodStatement EXCEPT !.proc_or_result = TRUE, !.create_priv = FALSE],
    [GoodStatement EXCEPT !.drop_priv = FALSE, !.self_ref = TRUE] }

\* lines 229-244: the names of the select list after the view list is applied
ApplyViewList(s) ==
  IF s.view_list = <<>> THEN s.items
  ELSE [i \in 1..Len(s.items) |-> s.view_list[i]]

\* a test that compares each item with the item just before it
HasDuplicateNameAdjacent(names) ==
  \E j \in 2..Len(names) : names[j - 1] = names[j]
\* lines 246-264: an item after the first has the name of an item before it
HasDuplicateName(names) ==
  \E j \in 2..Len(names) : \E i \in 1..(j - 1) : names[i] = names[j]

(***************************************************************************)
(* mysql_create_view, lines 68-299: the checks made before any lock is     *)
(* taken, in the order of the code.  exit is "return" for                  *)
(* DBUG_RETURN(TRUE), "err" for goto err, "pass" when every check passed;  *)
(* res is the local res at that point and reported tells whether an error  *)
(* message was given (my_error / my_message set thd->net.report_error).    *)
(***************************************************************************)
Outcome(exit, res, err) ==
  [exit |-> exit, res |-> res, err |-> err, reported |-> err # "none"]

ValidateView(s, mode) ==
  IF s.proc_or_result THEN Outcome("err", TRUE, "UnsupportedClause")
  ELSE IF s.derived_or_vars THEN Outcome("err", TRUE, "UnsupportedClause")
  ELSE IF ~s.create_priv \/ (mode # VIEW_CREATE_NEW /\ ~s.drop_priv)
    THEN Outcome("return", TRUE, "AccessDenied")
  ELSE IF ~s.table_access THEN Outcome("return", TRUE, "AccessDenied")
  ELSE IF ~s.subq_access THEN Outcome("err", TRUE, "AccessDenied")
  ELSE IF ~s.open_ok THEN Outcome("return", TRUE, "OpenTablesFailed")
  ELSE IF s.tmp_table THEN Outcome("err", TRUE, "TemporaryTable")
  ELSE IF s.self_ref THEN Outcome("err", TRUE, "SelfReference")
  ELSE IF ~s.prepare_ok THEN Outcome("err", TRUE, "PrepareFailed")
  ELSE IF s.view_list # <<>> /\ Len(s.view_list) # Len(s.items)
    THEN Outcome("err", FALSE, "ColumnCountMismatch")
  ELSE IF HasDuplicateName(ApplyViewList(s))
    THEN Outcome("return", TRUE, "DuplicateColumnName")
  ELSE IF s.col_priv_excess THEN Outcome("return", TRUE, "AccessDenied")
  ELSE Outcome("pass", FALSE, "none")

(***************************************************************************)
(* What a call leaves behind when it returns: the value returned, the      *)
(* error given, and the counts the call kept; the inputs are dropped.      *)
(***************************************************************************)
Return(r, ret, err) ==
  [Blank EXCEPT !.pc = "done", !.op = r.op, !.mode = r.mode, !.name = r.name,
                !.ret = ret, !.err = err,
                !.revision = r.revision, !.report_error = r.report_error,
                !.dirty = r.dirty, !.nwarn = r.nwarn, !.ninval = r.ninval,
                !.linked = r.linked, !.open_held = r.open_held,
                !.grl_held = r.grl_held]

\* lines 319-323, the err label: link the view back, return res || report_error
ErrExit(r, res, err) ==
  LET r1 == [r EXCEPT !.linked = TRUE]
  IN Return(r1, IF res \/ r.report_error THEN "error" ELSE "ok", err)

\* a lock that lets a thread in whoever holds it
MutexFreeNoWait(t) == TRUE
\* pthread_mutex_lock(&LOCK_open) returns once no thread holds the mutex
MutexFree(t) == LOCK_open = NoThread

\* the view's revision as the call sees it on disk: 0 when there is no view
CurrentRevision(f) == IF f.kind = "view" THEN f.revision ELSE 0

(***************************************************************************)
(* mysql_create_view, lines 51-299: unlink the view's TABLE_LIST, run the  *)
(* checks; leave by a return or by the err label, or go on to line 301.    *)
(* A call on a view is started only while its revision is below MaxRev.    *)
(***************************************************************************)
CreateViewValidate(t, mode, name, s) ==
  /\ AtRest(t)
  /\ CurrentRevision(store[name]) < MaxRev
  /\ LET o == ValidateView(s, mode)
         r == [Blank EXCEPT !.op = "create", !.mode = mode, !.name = name,
                            !.linked = FALSE, !.report_error = o.reported]
     IN th' = [th EXCEPT ![t] =
                 CASE o.exit = "return" -> Return(r, "error", o.err)
                   [] o.exit = "err" -> ErrExit(r, o.res, o.err)
                   [] OTHER -> [r EXCEPT !.pc = "wait_grl"]]
  /\ entry_store' = store
  /\ UNCHANGED <<store, LOCK_open, protect_against_global_read_lock, bad_unlock>>
  /\ UNCHANGED frm_params
  /\ UNCHANGED <<resolve_vars, analysis_vars>>

(***************************************************************************)
(* lines 301-305: wait_if_global_read_lock.  It returns 1 when the thread  *)
(* was killed while waiting; otherwise the thread is counted in            *)
(* protect_against_global_read_lock until start_waiting_global_read_lock.  *)
(***************************************************************************)
WaitIfGlobalReadLock(t, killed) ==
  /\ th[t].pc = "wait_grl"
  /\ IF killed
       THEN /\ th' = [th EXCEPT ![t] = ErrExit(th[t], TRUE, "Killed")]
            /\ UNCHANGED protect_against_global_read_lock
       ELSE /\ th' = [th EXCEPT ![t].pc = "lock_open", ![t].grl_held = @ + 1]
            /\ protect_against_global_read_lock' = protect_against_global_read_lock + 1
  /\ UNCHANGED <<store, LOCK_open, bad_unlock, entry_store>>
  /\ UNCHANGED frm_params
  /\ UNCHANGED <<resolve_vars, analysis_vars>>

\* line 306: pthread_mutex_lock(&LOCK_open)
LockOpen(t) ==
  /\ th[t].pc = "lock_open"
  /\ MutexFree(t)
  /\ LOCK_open' = t
  /\ th' = [th EXCEPT ![t].pc = "reg_probe", ![t].open_held = @ + 1]
  /\ UNCHANGED <<store, protect_against_global_read_lock, bad_unlock, entry_store>>
  /\ UNCHANGED frm_params
  /\ UNCHANGED <<resolve_vars, analysis_vars>>

(***************************************************************************)
(* mysql_register_view, lines 416-465: check the old .frm.                 *)
(***************************************************************************)
\* line 426: access(path, F_OK) succeeds
FileExists(f) == f.kind # "none"

\* lines 437-438: the parser read the file and its type is VIEW
ParserTypeIsView(f) == f.kind = "view"

\* lines 451-452: parse the revision parameter into view->revision
ReadRevision(f, old) == f.revision

ProbeResult(proceed, res, err, revision) ==
  [proceed |-> proceed, res |-> res, err |-> err, revision |-> revision,
   reported |-> err \notin {"none", "ProbeFailedSilently"}]

\* the two tests of the mode, each in the other's branch
ModeCheckSwapped(exists, mode) ==
  IF exists THEN (IF mode = VIEW_ALTER THEN "NoSuchView" ELSE "none")
  ELSE (IF mode = VIEW_CREATE_NEW THEN "AlreadyExists" ELSE "none")
\* the mode against what is on disk (lines 426-432 and 457-464)
ModeCheck(exists, mode) ==
  IF exists THEN (IF mode = VIEW_CREATE_NEW THEN "AlreadyExists" ELSE "none")
  ELSE (IF mode = VIEW_ALTER THEN "NoSuchView" ELSE "none")

CheckOldFrm(f, mode, revision, prepare_fails, parse_fails, reported) ==
  IF ModeCheck(FileExists(f), mode) # "none"
    THEN ProbeResult(FALSE, -1, ModeCheck(FileExists(f), mode), revision)
  ELSE IF ~FileExists(f) THEN ProbeResult(TRUE, 0, "none", revision)
  ELSE IF prepare_fails THEN ProbeResult(FALSE, 1, "ParserPrepareFailed", revision)
  ELSE IF ~ParserTypeIsView(f) THEN ProbeResult(FALSE, -1, "WrongObjectType", revision)
  ELSE IF parse_fails
    THEN (IF reported THEN ProbeResult(FALSE, -1, "ProbeFailed", revision)
          ELSE ProbeResult(FALSE, 0, "ProbeFailedSilently", revision))
  ELSE ProbeResult(TRUE, 0, "none", ReadRevision(f, revision))

(***************************************************************************)
(* mysql_create_view, lines 308-324, after mysql_register_view returned    *)
(* res: unlock LOCK_open, invalidate the query cache unless                *)
(* view->revision is 1, leave the global read lock bracket, then return    *)
(* by the err label when res is set and with send_ok otherwise.            *)
(***************************************************************************)
AfterRegister(r, res, err) ==
  LET r1 == [r EXCEPT !.open_held = @ - 1,
                      !.ninval = IF r.revision # 1 THEN @ + 1 ELSE @,
                      !.grl_held = @ - 1]
  IN IF res # 0 THEN ErrExit(r1, TRUE, err)
     ELSE Return([r1 EXCEPT !.linked = TRUE], "ok", err)

\* pthread_mutex_unlock(&LOCK_open) by thread t
Unlock(t) ==
  /\ LOCK_open' = NoThread
  /\ bad_unlock' = (bad_unlock \/ LOCK_open # t)

RegisterProbe(t, prepare_fails, parse_fails, reported) ==
  /\ th[t].pc = "reg_probe"
  /\ LET r == th[t]
         p == CheckOldFrm(store[r.name], r.mode, r.revision,
                          prepare_fails, parse_fails, reported)
         r1 == [r EXCEPT !.revision = p.revision,
                         !.report_error = @ \/ p.reported]
     IN IF p.proceed
          THEN /\ th' = [th EXCEPT ![t] = [r1 EXCEPT !.pc = "reg_write"]]
               /\ UNCHANGED <<LOCK_open, protect_against_global_read_lock, bad_unlock>>
          ELSE /\ th' = [th EXCEPT ![t] = AfterRegister(r1, p.res, p.err)]
               /\ Unlock(t)
               /\ protect_against_global_read_lock' = protect_against_global_read_lock - 1
  /\ UNCHANGED <<store, entry_store>>
  /\ UNCHANGED frm_params
  /\ UNCHANGED <<resolve_vars, analysis_vars>>

(***************************************************************************)
(* mysql_register_view, lines 466-541: fill the structure, decide whether  *)
(* the view is updatable, check the check option, write the .frm.          *)
(* A definition is what these lines read of the statement.                 *)
(***************************************************************************)
GoodDefinition ==
  [algorithm |-> VIEW_ALGORITHM_UNDEFINED,  \* lex->create_view_algorithm
   check |-> VIEW_CHECK_NONE,               \* lex->create_view_check
   can_be_merged |-> TRUE,                  \* lex->can_be_merged()
   union |-> FALSE,                         \* lex->select_lex.next_select()
   tables |-> <<"base">>,                   \* the tables of the main select
   in_subquery |-> FALSE]                   \* the first table is used again later

\* a table of the main select: a base table, an updatable view, a view that
\* is not updatable, a schema table, a table under an outer join
\* a table in nested joins none of which is outer, a table in a nested join
\* that is itself inside an outer join
TableKinds ==
  {"base", "upd_view", "nonupd_view", "schema", "outer_join", "inner_join",
   "nested_outer_join"}
\* what lines 489-506 read of a table: outer_join holds the outer_join field
\* of the table and of each embedding above it, innermost first
TableOfKind(kind) ==
  [view |-> kind \in {"upd_view", "nonupd_view"},
   updatable_view |-> kind = "upd_view",
   schema_table |-> kind = "schema",
   outer_join |-> CASE kind = "outer_join" -> <<TRUE>>
                    [] kind = "inner_join" -> <<FALSE, FALSE>>
                    [] kind = "nested_outer_join" -> <<FALSE, FALSE, TRUE>>
                    [] OTHER -> <<FALSE>>]

Definitions ==
  { GoodDefinition,
    [GoodDefinition EXCEPT !.check = VIEW_CHECK_CASCADED],
    [GoodDefinition EXCEPT !.algorithm = VIEW_ALGORITHM_MERGE, !.check = VIEW_CHECK_LOCAL],
    [GoodDefinition EXCEPT !.algorithm = VIEW_ALGORITHM_TMPTABLE],
    [GoodDefinition EXCEPT !.algorithm = VIEW_ALGORITHM_TMPTABLE, !.check = VIEW_CHECK_LOCAL],
    [GoodDefinition EXCEPT !.algorithm = VIEW_ALGORITHM_MERGE, !.can_be_merged = FALSE],
    [GoodDefinition EXCEPT !.can_be_merged = FALSE, !.check = VIEW_CHECK_CASCADED],
    [GoodDefinition EXCEPT !.tables = <<"base", "upd_view">>, !.check = VIEW_CHECK_LOCAL],
    [GoodDefinition EXCEPT !.tables = <<"nonupd_view">>, !.check = VIEW_CHECK_LOCAL],
    [GoodDefinition EXCEPT !.tables = <<"base", "schema">>],
    [GoodDefinition EXCEPT !.tables = <<"base", "outer_join">>, !.check = VIEW_CHECK_CASCADED],
    [GoodDefinition EXCEPT !.tables = <<"nested_outer_join">>],
    [GoodDefinition EXCEPT !.tables = <<"inner_join", "upd_view">>],
    [GoodDefinition EXCEPT !.in_subquery = TRUE],
    [GoodDefinition EXCEPT !.in_subquery = TRUE, !.check = VIEW_CHECK_LOCAL],
    [GoodDefinition EXCEPT !.in_subquery = TRUE, !.tables = <<"base", "base">>],
    [GoodDefinition EXCEPT !.in_subquery = TRUE, !.union = TRUE] }

\* lines 476-483: MERGE asked for a select that cannot be merged becomes UNDEFINED
StoredAlgorithm(d) ==
  IF d.algorithm = VIEW_ALGORITHM_MERGE /\ ~d.can_be_merged
    THEN VIEW_ALGORITHM_UNDEFINED ELSE d.algorithm

\* lines 499-506: the table or an embedding above it has outer_join
RECURSIVE UnderOuterJoin(_, _)
UnderOuterJoin(chain, up) ==
  IF up > Len(chain) THEN FALSE
  ELSE IF chain[up] THEN TRUE
  ELSE UnderOuterJoin(chain, up + 1)

\* a test that looks at the outer_join of the table only
NotUpdatableTableItself(tbl) ==
  \/ (tbl.view /\ ~tbl.updatable_view) \/ tbl.schema_table
  \/ tbl.outer_join[1]
\* lines 494-506: the table makes the view not updatable
NotUpdatableTable(tbl) ==
  \/ (tbl.view /\ ~tbl.updatable_view) \/ tbl.schema_table
  \/ UnderOuterJoin(tbl.outer_join, 1)

\* a classification that does not look at the algorithm
UpdatableViewIgnoresAlgorithm(d) ==
  /\ d.can_be_merged
  /\ \A i \in 1..Len(d.tables) : ~NotUpdatableTable(TableOfKind(d.tables[i]))
  /\ ~(~d.union /\ Len(d.tables) = 1 /\ d.in_subquery)
\* lines 485-527: view->updatable_view
UpdatableView(d) ==
  /\ d.can_be_merged
  /\ StoredAlgorithm(d) # VIEW_ALGORITHM_TMPTABLE
  /\ \A i \in 1..Len(d.tables) : ~NotUpdatableTable(TableOfKind(d.tables[i]))
  /\ ~(~d.union /\ Len(d.tables) = 1 /\ d.in_subquery)

\* lines 529-534: a check option on a view that is not updatable
CheckOptionFails(d) == d.check # VIEW_CHECK_NONE /\ ~UpdatableView(d)

(***************************************************************************)
(* lines 529-541: what mysql_register_view returns and whether the .frm    *)
(* was written.  sql_create_definition_file either replaces the file or    *)
(* fails and leaves it as it was.                                          *)
(***************************************************************************)
WriteResult(res, err, written) ==
  [res |-> res, err |-> err, written |-> written, reported |-> err # "none"]

\* the file written before the check of the check option
RegisterOutcomeWriteFirst(d, write_fails, reported) ==
  IF write_fails THEN WriteResult(IF reported THEN -1 ELSE 1, "WriteFailed", FALSE)
  ELSE IF CheckOptionFails(d)
    THEN WriteResult(-1, "CheckOptionRequiresUpdatable", TRUE)
  ELSE WriteResult(0, "none", TRUE)
RegisterOutcome(d, write_fails, reported) ==
  IF CheckOptionFails(d)
    THEN WriteResult(-1, "CheckOptionRequiresUpdatable", FALSE)
  ELSE IF write_fails THEN WriteResult(IF reported THEN -1 ELSE 1, "WriteFailed", FALSE)
  ELSE WriteResult(0, "none", TRUE)

\* sql_create_definition_file: the revision parameter is incremented and written
WriteDefinitionFile(revision) == ViewFile(revision + 1)

\* lines 484-487 and 413-414: the fields of `view' the file is written from
ViewParameters(d, timestamp) ==
  [updatable_view |-> UpdatableView(d), algorithm |-> StoredAlgorithm(d),
   with_check |-> d.check, timestamp |-> timestamp]

RegisterWrite(t, d, write_fails, reported, timestamp) ==
  /\ th[t].pc = "reg_write"
  /\ LET r == th[t]
         w == RegisterOutcome(d, write_fails, reported)
         r1 == [r EXCEPT !.report_error = @ \/ w.reported,
                         !.nwarn = IF StoredAlgorithm(d) # d.algorithm THEN @ + 1 ELSE @,
                         !.revision = IF w.written THEN @ + 1 ELSE @,
                         !.dirty = @ \/ w.written]
     IN /\ store' = IF w.written
                      THEN [store EXCEPT ![r.name] = WriteDefinitionFile(r.revision)]
                      ELSE store
        /\ frm_params' = IF w.written
                           THEN [frm_params EXCEPT ![r.name] = ViewParameters(d, timestamp)]
                           ELSE frm_params
        /\ th' = [th EXCEPT ![t] = AfterRegister(r1, w.res, w.err)]
  /\ Unlock(t)
  /\ protect_against_global_read_lock' = protect_against_global_read_lock - 1
  /\ UNCHANGED entry_store
  /\ UNCHANGED <<resolve_vars, analysis_vars>>

(***************************************************************************)
(* mysql_frm_type, lines 948-967.  The header read is sizeof(header)       *)
(* bytes, fewer when the file is shorter.                                  *)
(***************************************************************************)
HeaderSize == 10
\* the number of bytes my_read returns
HeaderLength(f) == IF f.kind = "short" THEN 4 ELSE HeaderSize
\* strncmp(header, "TYPE=VIEW\n", sizeof(header)) == 0
HeaderIsViewMarker(f) == f.kind = "view"

mysql_frm_type(f, io_error) ==
  IF io_error THEN FRMTYPE_ERROR
  ELSE IF HeaderLength(f) < HeaderSize \/ HeaderIsViewMarker(f) THEN FRMTYPE_VIEW
  ELSE FRMTYPE_TABLE

(***************************************************************************)
(* mysql_drop_view, lines 896-931.                                         *)
(***************************************************************************)
DropLists ==
  UNION { [1..n -> Names] : n \in 1..MaxDropList }

DropViewBegin(t, views, if_exists) ==
  /\ AtRest(t)
  /\ th' = [th EXCEPT ![t] = [Blank EXCEPT !.pc = "drop_lock", !.op = "drop",
                                           !.rest = views, !.if_exists = if_exists]]
  /\ entry_store' = store
  /\ UNCHANGED <<store, LOCK_open, protect_against_global_read_lock, bad_unlock>>
  /\ UNCHANGED frm_params
  /\ UNCHANGED <<resolve_vars, analysis_vars>>

\* line 901: pthread_mutex_lock(&LOCK_open)
DropLock(t) ==
  /\ th[t].pc = "drop_lock"
  /\ MutexFree(t)
  /\ LOCK_open' = t
  /\ th' = [th EXCEPT ![t].pc = "drop_body", ![t].open_held = @ + 1]
  /\ UNCHANGED <<store, protect_against_global_read_lock, bad_unlock, entry_store>>
  /\ UNCHANGED frm_params
  /\ UNCHANGED <<resolve_vars, analysis_vars>>

(***************************************************************************)
(* One turn of the loop, lines 902-923, and the err label, lines 928-930:  *)
(* exit is "continue" (next name), "err" (goto err); type is the local     *)
(* type after line 902; unlock tells whether the path unlocks LOCK_open.   *)
(***************************************************************************)
DropResult(exit, err, type, deleted, warned, unlock) ==
  [exit |-> exit, err |-> err, type |-> type, deleted |-> deleted,
   warned |-> warned, unlock |-> unlock]

DropTypeAfter(f, old_type, io_error) ==
  IF ~FileExists(f) THEN old_type
  ELSE mysql_frm_type(f, io_error) # FRMTYPE_VIEW

\* an err label that does not unlock
DropOutcomeNoUnlockOnErr(f, if_exists, old_type, io_error, delete_fails) ==
  LET type == DropTypeAfter(f, old_type, io_error)
  IN IF ~FileExists(f) \/ type
       THEN (IF if_exists THEN DropResult("continue", "none", type, FALSE, TRUE, TRUE)
             ELSE IF type THEN DropResult("err", "WrongObjectType", type, FALSE, FALSE, FALSE)
             ELSE DropResult("err", "NoSuchView", type, FALSE, FALSE, FALSE))
     ELSE IF delete_fails THEN DropResult("err", "DeleteFailed", type, FALSE, FALSE, FALSE)
     ELSE DropResult("continue", "none", type, TRUE, FALSE, TRUE)
\* a loop that does not look at drop_if_exists
DropOutcomeNoIfExists(f, if_exists, old_type, io_error, delete_fails) ==
  LET type == DropTypeAfter(f, old_type, io_error)
  IN IF ~FileExists(f) \/ type
       THEN (IF type THEN DropResult("err", "WrongObjectType", type, FALSE, FALSE, TRUE)
             ELSE DropResult("err", "NoSuchView", type, FALSE, FALSE, TRUE))
     ELSE IF delete_fails THEN DropResult("err", "DeleteFailed", type, FALSE, FALSE, TRUE)
     ELSE DropResult("continue", "none", type, TRUE, FALSE, TRUE)
DropOutcome(f, if_exists, old_type, io_error, delete_fails) ==
  LET type == DropTypeAfter(f, old_type, io_error)
  IN IF ~FileExists(f) \/ type
       THEN (IF if_exists THEN DropResult("continue", "none", type, FALSE, TRUE, TRUE)
             ELSE IF type THEN DropResult("err", "WrongObjectType", type, FALSE, FALSE, TRUE)
             ELSE DropResult("err", "NoSuchView", type, FALSE, FALSE, TRUE))
     ELSE IF delete_fails THEN DropResult("err", "DeleteFailed", type, FALSE, FALSE, TRUE)
     ELSE DropResult("continue", "none", type, TRUE, FALSE, TRUE)

DropViewStep(t, io_error, delete_fails) ==
  /\ th[t].pc = "drop_body"
  /\ LET r == th[t]
         view == Head(r.rest)
         o == DropOutcome(store[view], r.if_exists, r.type, io_error, delete_fails)
         r1 == [r EXCEPT !.type = o.type,
                         !.rest = Tail(r.rest),
                         !.report_error = @ \/ (o.exit = "err"),
                         !.nwarn = IF o.warned THEN @ + 1 ELSE @,
                         !.ninval = IF o.deleted THEN @ + 1 ELSE @,
                         !.dirty = @ \/ o.deleted,
                         !.open_held = IF o.unlock THEN @ - 1 ELSE @]
     IN /\ store' = IF o.deleted THEN [store EXCEPT ![view] = NoFile] ELSE store
        /\ frm_params' = IF o.deleted THEN [frm_params EXCEPT ![view] = NoParameters]
                          ELSE frm_params
        /\ th' = [th EXCEPT ![t] =
                    IF o.exit = "err" THEN Return(r1, "error", o.err)
                    ELSE IF r1.rest = <<>> THEN Return(r1, "ok", "none")
                    ELSE [r1 EXCEPT !.pc = "drop_lock"]]
        /\ IF o.unlock THEN Unlock(t) ELSE UNCHANGED <<LOCK_open, bad_unlock>>
  /\ UNCHANGED <<protect_against_global_read_lock, entry_store>>
  /\ UNCHANGED <<resolve_vars, analysis_vars>>

(***************************************************************************)
(* A connection: it starts a call when it has none, or takes the next step *)
(* of its call.  stmts, defs and lists are the statements it may issue and *)
(* faults tells whether the calls it makes of the file system and of the   *)
(* lock manager may fail.                                                  *)
(***************************************************************************)
Session(t, modes, names, stmts, defs, lists, faults, times) ==
  \/ \E mode \in modes, name \in names, s \in stmts :
       CreateViewValidate(t, mode, name, s)
  \/ \E killed \in faults : WaitIfGlobalReadLock(t, killed)
  \/ LockOpen(t)
  \/ \E prepare_fails, parse_fails, reported \in faults :
       RegisterProbe(t, prepare_fails, parse_fails, reported)
  \/ \E d \in defs, write_fails, reported \in faults, timestamp \in times :
       RegisterWrite(t, d, write_fails, reported, timestamp)
  \/ \E views \in lists, if_exists \in BOOLEAN :
       DropViewBegin(t, views, if_exists)
  \/ DropLock(t)
  \/ \E io_error, delete_fails \in faults : DropViewStep(t, io_error, delete_fails)

\* one connection issuing any sequence of statements
Next ==
  Session("t1", Modes, Names, Statements, Definitions, DropLists, BOOLEAN,
          {InitialParameters.timestamp})

Spec == Init /\ [][Next]_vars

(***************************************************************************)
(* Concurrent ALTER VIEW statements on one existing view: every connection *)
(* issues well-formed ALTER VIEW v1 statements, and nothing fails in the   *)
(* file system or the lock manager.                                        *)
(***************************************************************************)
InitAlter ==
  /\ store = [n \in Names |-> IF n = "v1" THEN ViewFile(1) ELSE NoFile]
  /\ LOCK_open = NoThread
  /\ protect_against_global_read_lock = 0
  /\ th = [t \in Threads |-> Blank]
  /\ bad_unlock = FALSE
  /\ entry_store = store
  /\ frm_params = InitialFrmParams(store)
  /\ ResolveUnused
  /\ AnalysisUnused

\* the definitions that pass the check of the check option
GoodDefinitions == { d \in Definitions : ~CheckOptionFails(d) }

NextAlter ==
  \E t \in Threads :
    \/ CreateViewValidate(t, VIEW_ALTER, "v1", GoodStatement)
    \/ WaitIfGlobalReadLock(t, FALSE)
    \/ LockOpen(t)
    \/ RegisterProbe(t, FALSE, FALSE, FALSE)
    \/ \E d \in GoodDefinitions, timestamp \in Times :
         RegisterWrite(t, d, FALSE, FALSE, timestamp)

SpecAlter == InitAlter /\ [][NextAlter]_vars

\* one connection issuing CREATE / ALTER VIEW statements of every shape over
\* a select that gives an updatable view, none of its calls of the file
\* system or of the lock manager failing
NextCreate ==
  \/ \E mode \in Modes, name \in Names, s \in Statements :
       CreateViewValidate("t1", mode, name, s)
  \/ WaitIfGlobalReadLock("t1", FALSE)
  \/ LockOpen("t1")
  \/ RegisterProbe("t1", FALSE, FALSE, FALSE)
  \/ RegisterWrite("t1", GoodDefinition, FALSE, FALSE, InitialParameters.timestamp)

SpecCreate == Init /\ [][NextCreate]_vars

(***************************************************************************)
(* mysql_make_view (lines 558-872): the node `table' of the statement's    *)
(* global table list names a view; its stored definition is read, its      *)
(* query is parsed into a LEX of its own, and the tables and selects of    *)
(* that LEX are linked into the statement.                                 *)
(*                                                                         *)
(* Objects are named by <<kind, index, call>>: call 0 is the statement as  *)
(* it was parsed, call k > 0 what the k-th call of mysql_make_view         *)
(* allocated.  A LEX is named by the call that made it, the statement's    *)
(* own LEX by 0.                                                           *)
(***************************************************************************)
\* the calls of mysql_make_view made on the node
MaxCalls == 3
\* the longest global table list of the statement
MaxOuterTables == 3
\* the most tables in the view's query
MaxViewTables == 2

Null == <<"NULL", 0, 0>>
OuterTable(i) == <<"TABLE_LIST", i, 0>>
ViewTable(i, k) == <<"TABLE_LIST", i, k>>
\* the view this node was brought by, when the node is inside a view
TopView == <<"TABLE_LIST", 0, 0>>
\* the slot &lex->query_tables of the LEX made by call k
QueryTables(k) == <<"query_tables", 0, k>>
OuterSelect == <<"SELECT_LEX", 1, 0>>
ViewSelect(i, k) == <<"SELECT_LEX", i, k>>
ViewUnit(i, k) == <<"SELECT_LEX_UNIT", i, k>>
\* table->view = 0, and thd->lex = old_lex
NoLex == 0

MODE_PIPES_AS_CONCAT == "MODE_PIPES_AS_CONCAT"
MODE_ANSI_QUOTES == "MODE_ANSI_QUOTES"
MODE_IGNORE_SPACE == "MODE_IGNORE_SPACE"
MODE_NO_BACKSLASH_ESCAPES == "MODE_NO_BACKSLASH_ESCAPES"
MODE_ONLY_FULL_GROUP_BY == "MODE_ONLY_FULL_GROUP_BY"
\* lines 646-647: the modes switched off while the view is parsed
ParsingModes ==
  {MODE_PIPES_AS_CONCAT, MODE_ANSI_QUOTES, MODE_IGNORE_SPACE,
   MODE_NO_BACKSLASH_ESCAPES}

SQLCOM_SELECT == "SQLCOM_SELECT"
SQLCOM_SHOW_CREATE == "SQLCOM_SHOW_CREATE"
SQLCOM_UPDATE == "SQLCOM_UPDATE"

\* a stored definition, with what yyparse finds in its query
GoodFrm ==
  [algorithm |-> VIEW_ALGORITHM_UNDEFINED, updatable_view |-> TRUE,
   with_check |-> VIEW_CHECK_NONE, can_be_merged |-> TRUE, tables |-> 1,
   inner_units |-> 0, safe_to_cache_query |-> TRUE,
   option_to_query_cache |-> FALSE]

\* lex->can_be_merged() holds only of a query with a table
Frms ==
  { GoodFrm,
    [GoodFrm EXCEPT !.algorithm = VIEW_ALGORITHM_MERGE],
    [GoodFrm EXCEPT !.algorithm = VIEW_ALGORITHM_TMPTABLE, !.updatable_view = FALSE],
    [GoodFrm EXCEPT !.with_check = VIEW_CHECK_CASCADED],
    [GoodFrm EXCEPT !.with_check = VIEW_CHECK_LOCAL, !.tables = MaxViewTables],
    [GoodFrm EXCEPT !.updatable_view = FALSE],
    [GoodFrm EXCEPT !.can_be_merged = FALSE, !.updatable_view = FALSE],
    [GoodFrm EXCEPT !.can_be_merged = FALSE, !.updatable_view = FALSE, !.tables = 0],
    [GoodFrm EXCEPT !.tables = MaxViewTables],
    [GoodFrm EXCEPT !.inner_units = 1],
    [GoodFrm EXCEPT !.safe_to_cache_query = FALSE],
    [GoodFrm EXCEPT !.option_to_query_cache = TRUE, !.algorithm = VIEW_ALGORITHM_TMPTABLE,
                    !.updatable_view = FALSE, !.tables = MaxViewTables] }

\* the statement that uses the view and the place of the node in it
GoodSite ==
  [sql_command |-> SQLCOM_SELECT, describe |-> FALSE,
   prelocking_placeholder |-> FALSE, nested |-> FALSE, in_outer_unit |-> TRUE,
   can_use_merged |-> TRUE, can_not_use_merged |-> FALSE,
   conventional |-> TRUE, options |-> {MODE_ANSI_QUOTES, MODE_ONLY_FULL_GROUP_BY}]

Sites ==
  { GoodSite,
    [GoodSite EXCEPT !.describe = TRUE],
    [GoodSite EXCEPT !.sql_command = SQLCOM_SHOW_CREATE, !.can_use_merged = FALSE],
    [GoodSite EXCEPT !.sql_command = SQLCOM_UPDATE],
    [GoodSite EXCEPT !.sql_command = SQLCOM_UPDATE, !.can_use_merged = FALSE,
                     !.in_outer_unit = FALSE],
    [GoodSite EXCEPT !.can_not_use_merged = TRUE],
    [GoodSite EXCEPT !.prelocking_placeholder = TRUE],
    [GoodSite EXCEPT !.nested = TRUE],
    [GoodSite EXCEPT !.conventional = FALSE],
    [GoodSite EXCEPT !.options = {}] }

\* the node before its first resolution
InitialTable(p, c) ==
  [id |-> OuterTable(p), view |-> NoLex, timestamp |-> FALSE, query |-> FALSE,
   algorithm |-> VIEW_ALGORITHM_UNDEFINED, updatable_view |-> FALSE,
   with_check |-> VIEW_CHECK_NONE, view_name |-> FALSE,
   effective_algorithm |-> VIEW_ALGORITHM_UNDEFINED, updatable |-> FALSE,
   effective_with_check |-> VIEW_CHECK_NONE, ancestor |-> Null,
   multitable_view |-> FALSE, nested_join |-> FALSE, where |-> FALSE,
   derived |-> Null,
   prelocking_placeholder |-> c.prelocking_placeholder,
   belong_to_view |-> IF c.nested THEN TopView ELSE Null,
   in_outer_unit |-> c.in_outer_unit]

\* the statement's list of n tables, linked forward and backward
InitialHeap(n) ==
  LET ids == {OuterTable(i) : i \in 1..n}
  IN [next_global |-> [t \in ids |-> IF t[2] < n THEN OuterTable(t[2] + 1) ELSE Null],
      prev_global |-> [t \in ids |-> IF t[2] = 1 THEN QueryTables(0)
                                     ELSE OuterTable(t[2] - 1)],
      belong_to_view |-> [t \in ids |-> Null],
      skip_temporary |-> [t \in ids |-> FALSE]]

InitialLex(n, c) ==
  [sql_command |-> c.sql_command, describe |-> c.describe,
   can_use_merged |-> c.can_use_merged,
   can_not_use_merged |-> c.can_not_use_merged,
   query_tables |-> OuterTable(1), query_tables_last |-> OuterTable(n),
   all_selects_list |-> <<OuterSelect>>, derived_view |-> FALSE,
   safe_to_cache_query |-> TRUE, option_to_query_cache |-> FALSE,
   subqueries |-> FALSE, units |-> <<>>]

InitialThd(c) ==
  [lex |-> NoLex, options |-> c.options, character_set_client |-> "client",
   select_number |-> 1, conventional |-> c.conventional, backup |-> FALSE]

InitialCall ==
  [pc |-> "idle", ret |-> 0, calls |-> 0, nparse |-> 0, nyyparse |-> 0,
   options |-> {}, save_cs |-> "client"]

InitResolve ==
  /\ store = [n \in Names |-> NoFile]
  /\ LOCK_open = NoThread
  /\ protect_against_global_read_lock = 0
  /\ th = [t \in Threads |-> Blank]
  /\ bad_unlock = FALSE
  /\ entry_store = store
  /\ frm_params = InitialFrmParams(store)
  /\ \E n \in 1..MaxOuterTables : \E p \in 1..n : \E c \in Sites :
       /\ table = InitialTable(p, c)
       /\ old_lex = InitialLex(n, c)
       /\ thd = InitialThd(c)
       /\ heap = InitialHeap(n)
  /\ view_frm \in Frms
  /\ mk = InitialCall
  /\ AnalysisUnused

\* a call that never takes the early return
AlreadyProcessedNever(tb) == FALSE
\* lines 564-570: the node was resolved by an earlier execution
AlreadyProcessed(tb) == tb.view # NoLex

\* lines 595-606: parser->parse fills the node from the stored definition
ParseViewParameters(tb, frm) ==
  [tb EXCEPT !.query = TRUE, !.algorithm = frm.algorithm,
             !.updatable_view = frm.updatable_view,
             !.with_check = frm.with_check, !.view_name = TRUE]

(* lines 564-649: the early return, the read of the definition, the new   *)
(* LEX and the parsing modes                                               *)
MakeViewOpen(parse_fails) ==
  /\ mk.pc = "idle" /\ mk.calls < MaxCalls
  /\ IF AlreadyProcessed(table)
       THEN /\ mk' = [mk EXCEPT !.calls = @ + 1, !.ret = 0]
            /\ UNCHANGED <<table, thd>>
     ELSE IF parse_fails
       THEN /\ mk' = [mk EXCEPT !.calls = @ + 1, !.ret = 1, !.nparse = @ + 1]
            /\ table' = [table EXCEPT !.timestamp = TRUE, !.view = NoLex]
            /\ thd' = [thd EXCEPT !.lex = NoLex, !.backup = FALSE]
     ELSE /\ mk' = [mk EXCEPT !.calls = @ + 1, !.pc = "yyparse",
                              !.nparse = @ + 1, !.options = thd.options,
                              !.save_cs = thd.character_set_client]
          /\ table' = [ParseViewParameters(table, view_frm)
                         EXCEPT !.timestamp = TRUE, !.view = mk.calls + 1]
          /\ thd' = [thd EXCEPT !.lex = mk.calls + 1, !.select_number = @ + 1,
                                !.options = @ \ ParsingModes,
                                !.character_set_client = "system",
                                !.backup = ~thd.conventional]
  /\ UNCHANGED <<old_lex, heap, view_frm>>
  /\ UNCHANGED <<lifecycle_vars, analysis_vars>>

\* lines 668-683: EXPLAIN SELECT and SHOW CREATE need rights on the view
ShowDenied(tb, ol, explain_denied, show_denied) ==
  IF ~tb.prelocking_placeholder /\ ol.sql_command = SQLCOM_SELECT /\ ol.describe
    THEN explain_denied
  ELSE IF ~tb.prelocking_placeholder /\ ol.sql_command = SQLCOM_SHOW_CREATE
    THEN show_denied
  ELSE FALSE

\* the n tables yyparse leaves in lex->query_tables of the LEX of call k
ParsedTables(hp, n, k) ==
  LET new == {ViewTable(i, k) : i \in 1..n}
      all == DOMAIN hp.next_global \cup new
  IN [next_global |->
        [t \in all |-> IF t \in new
                         THEN (IF t[2] < n THEN ViewTable(t[2] + 1, k) ELSE Null)
                         ELSE hp.next_global[t]],
      prev_global |->
        [t \in all |-> IF t \in new
                         THEN (IF t[2] = 1 THEN QueryTables(k)
                               ELSE ViewTable(t[2] - 1, k))
                         ELSE hp.prev_global[t]],
      belong_to_view |->
        [t \in all |-> IF t \in new THEN Null ELSE hp.belong_to_view[t]],
      skip_temporary |->
        [t \in all |-> IF t \in new THEN FALSE ELSE hp.skip_temporary[t]]]

\* lines 689-695
MarkViewTables(hp, n, k, top_view) ==
  LET new == {ViewTable(i, k) : i \in 1..n}
  IN [hp EXCEPT
        !.belong_to_view = [t \in DOMAIN @ |-> IF t \in new THEN top_view ELSE @[t]],
        !.skip_temporary = [t \in DOMAIN @ |-> IF t \in new THEN TRUE ELSE @[t]]]

\* a splice that leaves the back pointer of the following table as it was
LinkViewTablesNoBackLink(hp, tb, n, k) ==
  IF n = 0 THEN hp
  ELSE
    LET view_tables == ViewTable(1, k)
        view_tables_tail == ViewTable(n, k)
        after == hp.next_global[tb.id]
    IN [hp EXCEPT
          !.next_global =
            [t \in DOMAIN @ |->
               IF t = tb.id THEN view_tables
               ELSE IF t = view_tables_tail /\ after # Null THEN after
               ELSE @[t]],
          !.prev_global =
            [t \in DOMAIN @ |-> IF t = view_tables THEN tb.id ELSE @[t]]]
\* lines 704-717: the tables of the view are put after the node
LinkViewTables(hp, tb, n, k) ==
  IF n = 0 THEN hp
  ELSE
    LET view_tables == ViewTable(1, k)
        view_tables_tail == ViewTable(n, k)
        after == hp.next_global[tb.id]
    IN [hp EXCEPT
          !.next_global =
            [t \in DOMAIN @ |->
               IF t = tb.id THEN view_tables
               ELSE IF t = view_tables_tail /\ after # Null THEN after
               ELSE @[t]],
          !.prev_global =
            [t \in DOMAIN @ |->
               IF t = view_tables THEN tb.id
               ELSE IF t = after THEN view_tables_tail
               ELSE @[t]]]

\* line 713
QueryTablesLast(ol, hp, tb, n, k) ==
  IF n > 0 /\ hp.next_global[tb.id] = Null
    THEN ViewTable(n, k)
    ELSE ol.query_tables_last

\* a test that does not look at the statement using the view
MergeAbilityIgnoresSite(tb, ol, frm) ==
  /\ tb.algorithm # VIEW_ALGORITHM_TMPTABLE
  /\ frm.can_be_merged
\* lines 752-756
MergeAbility(tb, ol, frm) ==
  /\ tb.algorithm # VIEW_ALGORITHM_TMPTABLE
  /\ frm.can_be_merged
  /\ (~tb.in_outer_unit \/ ol.can_use_merged)
  /\ ~ol.can_not_use_merged

\* lines 761-779
MergeNode(tb, n, k) ==
  [tb EXCEPT !.effective_algorithm = VIEW_ALGORITHM_MERGE,
             !.updatable = tb.updatable_view,
             !.effective_with_check = tb.with_check,
             !.ancestor = ViewTable(1, k),
             !.multitable_view = @ \/ n >= 2]

\* lines 811-823: the subqueries of the view go under the node's select
MergeUnits(ol, frm, k) ==
  [ol EXCEPT !.units = [i \in 1..frm.inner_units |-> ViewUnit(i + 1, k)] \o @]

\* a temporary table that takes the flags of the stored definition
TmptableNodeAsStored(tb, k) ==
  [tb EXCEPT !.effective_algorithm = VIEW_ALGORITHM_TMPTABLE,
             !.updatable = tb.updatable_view,
             !.effective_with_check = tb.with_check,
             !.derived = ViewUnit(1, k)]
\* lines 834-845
TmptableNode(tb, k) ==
  [tb EXCEPT !.effective_algorithm = VIEW_ALGORITHM_TMPTABLE,
             !.updatable = FALSE,
             !.effective_with_check = VIEW_CHECK_NONE,
             !.derived = ViewUnit(1, k)]

TmptableUnits(ol, k) ==
  [ol EXCEPT !.subqueries = TRUE, !.units = <<ViewUnit(1, k)>> \o @]

\* lines 850-857, the ok label: the selects of the view, its main select
\* last, go before the selects of the statement
LinkSelects(ol, frm, k) ==
  [ol EXCEPT !.all_selects_list =
     [i \in 1..(frm.inner_units + 1) |-> ViewSelect(frm.inner_units + 2 - i, k)] \o @]

\* lines 859-863, the ok2 label, and with ret = 1 lines 865-871
MakeViewExit(tb, ol, hp, thd1, ret) ==
  /\ table' = tb
  /\ old_lex' = ol
  /\ heap' = hp
  /\ thd' = [thd1 EXCEPT !.lex = NoLex, !.backup = FALSE]
  /\ mk' = [mk EXCEPT !.pc = "idle", !.ret = ret, !.nyyparse = @ + 1]

\* an err label that leaves table->view as it is
MakeViewErrKeepsView(tb, ol, hp, thd1) ==
  MakeViewExit(tb, ol, hp, thd1, 1)
\* lines 865-871, the err label
MakeViewErr(tb, ol, hp, thd1) ==
  MakeViewExit([tb EXCEPT !.view = NoLex], ol, hp, thd1, 1)

(* lines 650-871: the query of the view is parsed and linked in           *)
MakeViewBuild(res, fatal, explain_denied, show_denied, calloc_fails) ==
  /\ mk.pc = "yyparse"
  /\ LET k == mk.calls
         n == view_frm.tables
         thd1 == [thd EXCEPT !.character_set_client = mk.save_cs,
                             !.options = mk.options]
         top_view == IF table.belong_to_view # Null THEN table.belong_to_view
                     ELSE table.id
         heapP == ParsedTables(heap, n, k)
         heapM == MarkViewTables(heapP, n, k, top_view)
         heapL == LinkViewTables(heapM, table, n, k)
         lexL == [old_lex EXCEPT
                    !.query_tables_last = QueryTablesLast(old_lex, heapM, table, n, k)]
         lexD == [lexL EXCEPT
                    !.derived_view = TRUE,
                    !.safe_to_cache_query = @ /\ view_frm.safe_to_cache_query,
                    !.option_to_query_cache = @ \/ view_frm.option_to_query_cache]
         tableM == MergeNode(table, n, k)
     IN IF res # 0 \/ fatal
          THEN MakeViewErr(table, old_lex, heap, thd1)
        ELSE IF ShowDenied(table, old_lex, explain_denied, show_denied)
          THEN MakeViewErr(table, old_lex, heapP, thd1)
        ELSE IF table.prelocking_placeholder
          THEN MakeViewExit(table, lexL, heapL, thd1, 0)
        ELSE IF MergeAbility(table, old_lex, view_frm)
          THEN IF calloc_fails
                 THEN MakeViewErr(tableM, lexD, heapL, thd1)
                 ELSE MakeViewExit([tableM EXCEPT !.nested_join = TRUE, !.where = TRUE],
                                   LinkSelects(MergeUnits(lexD, view_frm, k), view_frm, k),
                                   heapL, thd1, 0)
        ELSE MakeViewExit(TmptableNode(table, k),
                          LinkSelects(TmptableUnits(lexD, k), view_frm, k),
                          heapL, thd1, 0)
  /\ UNCHANGED view_frm
  /\ UNCHANGED <<lifecycle_vars, analysis_vars>>

\* the executions of one statement that uses the view
NextResolve ==
  \/ \E parse_fails \in BOOLEAN : MakeViewOpen(parse_fails)
  \/ \E res \in {0, 1}, fatal, explain_denied, show_denied, calloc_fails \in BOOLEAN :
       MakeViewBuild(res, fatal, explain_denied, show_denied, calloc_fails)

SpecResolve == InitResolve /\ [][NextResolve]_vars

(***************************************************************************)
(* mysql_create_view, lines 181-215, followed table by table.  The         *)
(* statement CREATE / ALTER VIEW name AS SELECT ... FROM from is given     *)
(* with the tables of its select.  open_and_lock_tables opens every table  *)
(* of the global list in turn; a table that is a view is resolved by       *)
(* mysql_make_view, which names the node (lines 603-606), puts the tables  *)
(* of the view's query after it (lines 704-717) and sets its view field    *)
(* (line 869), so that the tables of the view are opened in their turn.    *)
(***************************************************************************)
\* most tables in the select of a view
MaxFrom == 2
\* the longest global table list the views of two names can give: every
\* table of the select a view, every table of these views the other view
MaxOpened == MaxFrom + MaxFrom * MaxFrom

\* a TABLE_LIST of the statement before it is opened
Unopened(name) == [table_name |-> name, view |-> FALSE, view_name |-> "-"]
FromLists ==
  {<<>>} \cup UNION { [1..k -> Names] : k \in 1..MaxFrom }

\* a resolution that names the node and leaves the view's tables out of the list
MakeViewNodeNoTables(list, n, query) ==
  [list EXCEPT ![n] = [@ EXCEPT !.view = TRUE, !.view_name = list[n].table_name]]
\* mysql_make_view on the n-th table of the list, query being the view's tables
MakeViewNode(list, n, query) ==
  SubSeq(list, 1, n - 1)
    \o <<[list[n] EXCEPT !.view = TRUE, !.view_name = list[n].table_name]>>
    \o [i \in 1..Len(query) |-> Unopened(query[i])]
    \o SubSeq(list, n + 1, Len(list))

\* open_and_lock_tables from the n-th table on: ok is FALSE when it fails
RECURSIVE OpenTables(_, _, _, _)
OpenTables(list, n, files, queries) ==
  IF n > Len(list) THEN [ok |-> TRUE, tables |-> list]
  ELSE IF Len(list) > MaxOpened \/ files[list[n].table_name].kind \in {"none", "short"}
    THEN [ok |-> FALSE, tables |-> list]
  ELSE IF files[list[n].table_name].kind = "view"
    THEN OpenTables(MakeViewNode(list, n, queries[list[n].table_name]),
                    n + 1, files, queries)
  ELSE OpenTables(list, n + 1, files, queries)

\* lines 199-207: a table of the list is a view and has the name of the view
SameViewUsed(tables, name) ==
  \E i \in 1..Len(tables) : tables[i].view /\ tables[i].view_name = name

NoCreate ==
  [pc |-> "idle", mode |-> VIEW_CREATE_NEW, name |-> "-", from |-> <<>>,
   tables |-> <<>>, ret |-> "none", err |-> "none"]

\* the connections in conns have no call; no view selects from a table
InitOpenOf(conns) ==
  /\ store \in [Names -> {NoFile, TableFile, ViewFile(1)}]
  /\ LOCK_open = NoThread
  /\ protect_against_global_read_lock = 0
  /\ th = [t \in Threads |-> Blank]
  /\ bad_unlock = FALSE
  /\ entry_store = store
  /\ frm_params = InitialFrmParams(store)
  /\ ResolveUnused
  /\ frm_query = [n \in Names |-> <<>>]
  /\ cv = [t \in conns |-> NoCreate]
  /\ UpdateUnused

InitOpen == InitOpenOf({"t1"})

\* lines 181-215: open the tables, look for the view among them
CreateViewOpen(t, mode, name, from) ==
  /\ cv[t].pc \in {"idle", "done"}
  /\ CurrentRevision(store[name]) < MaxRev
  /\ LET o == OpenTables([i \in 1..Len(from) |-> Unopened(from[i])], 1,
                         store, frm_query)
         c == [NoCreate EXCEPT !.mode = mode, !.name = name, !.from = from,
                               !.tables = o.tables]
     IN cv' = [cv EXCEPT ![t] =
                 IF ~o.ok
                   THEN [c EXCEPT !.pc = "done", !.ret = "error", !.err = "OpenTablesFailed"]
                 ELSE IF SameViewUsed(o.tables, name)
                   THEN [c EXCEPT !.pc = "done", !.ret = "error", !.err = "SelfReference"]
                 ELSE [c EXCEPT !.pc = "register"]]
  /\ entry_store' = store
  /\ UNCHANGED <<store, LOCK_open, protect_against_global_read_lock, th,
                 bad_unlock, frm_params, frm_query>>
  /\ UNCHANGED <<resolve_vars, update_vars>>

\* lines 301-313: mysql_register_view between the two locks
CreateViewRegister(t, timestamp) ==
  /\ cv[t].pc = "register"
  /\ LET c == cv[t]
         f == store[c.name]
         p == CheckOldFrm(f, c.mode, 0, FALSE, FALSE, FALSE)
     IN IF p.proceed
          THEN /\ store' = [store EXCEPT ![c.name] = WriteDefinitionFile(p.revision)]
               /\ frm_params' = [frm_params EXCEPT
                                   ![c.name] = ViewParameters(GoodDefinition, timestamp)]
               /\ frm_query' = [frm_query EXCEPT ![c.name] = c.from]
               /\ cv' = [cv EXCEPT ![t] = [c EXCEPT !.pc = "done", !.ret = "ok"]]
          ELSE /\ cv' = [cv EXCEPT ![t] =
                           [c EXCEPT !.pc = "done", !.ret = "error", !.err = p.err]]
               /\ UNCHANGED <<store, frm_params, frm_query>>
  /\ UNCHANGED <<LOCK_open, protect_against_global_read_lock, th, bad_unlock,
                 entry_store>>
  /\ UNCHANGED <<resolve_vars, update_vars>>

\* mysql_drop_view of one name that is a view, lines 896-926
DropOneView(t, name) ==
  /\ cv[t].pc \in {"idle", "done"}
  /\ store[name].kind = "view"
  /\ store' = [store EXCEPT ![name] = NoFile]
  /\ frm_params' = [frm_params EXCEPT ![name] = NoParameters]
  /\ frm_query' = [frm_query EXCEPT ![name] = <<>>]
  /\ cv' = [cv EXCEPT ![t] = NoCreate]
  /\ entry_store' = store
  /\ UNCHANGED <<LOCK_open, protect_against_global_read_lock, th, bad_unlock>>
  /\ UNCHANGED <<resolve_vars, update_vars>>

\* a connection issuing CREATE / ALTER / DROP VIEW, one call after the other
OpenSession(t, modes, froms) ==
  \/ \E mode \in modes, name \in Names, from \in froms :
       CreateViewOpen(t, mode, name, from)
  \/ CreateViewRegister(t, InitialParameters.timestamp)
  \/ \E name \in Names : DropOneView(t, name)

NextOpen == OpenSession("t1", Modes, FromLists)

SpecOpen == InitOpen /\ [][NextOpen]_vars

\* two connections: between the check of lines 188-207 and the write under
\* LOCK_open (line 306) of one, the other may take any of its steps
InitOpenConcurrent ==
  /\ InitOpenOf(Threads)
  /\ \A n \in Names : store[n].kind = "view"

\* ALTER VIEW over at most one table
NextOpenConcurrent ==
  \E t \in Threads :
    OpenSession(t, {VIEW_ALTER}, { from \in FromLists : Len(from) <= 1 })

SpecOpenConcurrent == InitOpenConcurrent /\ [][NextOpenConcurrent]_vars

(***************************************************************************)
(* check_key_in_view (lines 991-1076) and insert_view_fields (lines        *)
(* 1092-1113).  Both read the field translation of a merged view: one      *)
(* item for each column of the view.  An item is a field of the            *)
(* underlying table ("a", "b"), a field of another table ("x"), or an      *)
(* expression ("expr"); filed_for_view_update gives the field of an item   *)
(* that is a field and no field otherwise.                                 *)
(***************************************************************************)
\* most columns of a view
MaxItems == 2
\* most keys of the underlying table
MaxKeys == 2

NoField == "-"
\* table->field: the fields of the underlying table
TableFields == <<"a", "b">>
Items == {"a", "b", "x", "expr"}
Translations == UNION { [1..k -> Items] : k \in 1..MaxItems }
filed_for_view_update(item) == IF item = "expr" THEN NoField ELSE item

\* the flags of a key and its parts
HA_NOSAME == "HA_NOSAME"
HA_NULL_PART_KEY == "HA_NULL_PART_KEY"
Key(flags, key_part) == [flags |-> flags, key_part |-> key_part]
Keys ==
  { Key({HA_NOSAME}, <<"a">>),
    Key({HA_NOSAME}, <<"a", "b">>),
    Key({HA_NOSAME, HA_NULL_PART_KEY}, <<"b">>),
    Key({}, <<"a">>) }
KeyLists == {<<>>} \cup UNION { [1..k -> Keys] : k \in 1..MaxKeys }

\* the node given: a base table, a view, a table that belongs to a view
NodeKinds == {"table", "view", "view_table"}
SQLCOM_INSERT == "SQLCOM_INSERT"

\* lines 1028-1035 and 1049-1056: the index of the first item that is the
\* field, Len(trans) + 1 when there is none
RECURSIVE FirstItemOf(_, _, _)
FirstItemOf(trans, field, k) ==
  IF k > Len(trans) THEN k
  ELSE IF filed_for_view_update(trans[k]) # NoField
          /\ filed_for_view_update(trans[k]) = field THEN k
  ELSE FirstItemOf(trans, field, k + 1)

\* lines 1025-1039: every part of the key from the i-th on is an item
RECURSIVE AllKeyPartsUsed(_, _, _)
AllKeyPartsUsed(trans, key_part, i) ==
  IF FirstItemOf(trans, key_part[i], 1) = Len(trans) + 1 THEN FALSE
  ELSE IF i + 1 > Len(key_part) THEN TRUE
  ELSE AllKeyPartsUsed(trans, key_part, i + 1)

\* a test of the flags that takes every unique key
UniqueKey(key) == HA_NOSAME \in key.flags
\* line 1019: the key is unique and no part of it may be NULL
UniqueNotNullKey(key) ==
  key.flags \cap {HA_NOSAME, HA_NULL_PART_KEY} = {HA_NOSAME}

\* lines 1017-1041: some key from the i-th on is usable
RECURSIVE UsableKeyFound(_, _, _)
UsableKeyFound(trans, key_info, i) ==
  IF i > Len(key_info) THEN FALSE
  ELSE IF UniqueNotNullKey(key_info[i])
          /\ AllKeyPartsUsed(trans, key_info[i].key_part, 1) THEN TRUE
  ELSE UsableKeyFound(trans, key_info, i + 1)

\* lines 1047-1073: the index of the first field of the table that is no item
RECURSIVE FirstFieldMissing(_, _, _)
FirstFieldMissing(trans, fields, f) ==
  IF f > Len(fields) THEN f
  ELSE IF FirstItemOf(trans, fields[f], 1) = Len(trans) + 1 THEN f
  ELSE FirstFieldMissing(trans, fields, f + 1)

KeyResult(ret, nwarn) == [ret |-> ret, nwarn |-> nwarn]
\* check_key_in_view: the value returned and the warnings pushed
check_key_in_view(c) ==
  IF c.node = "table" \/ c.sql_command = SQLCOM_INSERT \/ c.select_limit = 0
    THEN KeyResult(FALSE, 0)
  ELSE IF UsableKeyFound(c.trans, c.key_info, 1) THEN KeyResult(FALSE, 0)
  ELSE IF FirstFieldMissing(c.trans, TableFields, 1) = Len(TableFields) + 1
    THEN KeyResult(FALSE, 0)
  ELSE IF c.updatable_views_with_limit THEN KeyResult(FALSE, 1)
  ELSE KeyResult(TRUE, 0)

InitKey ==
  /\ store = [n \in Names |-> NoFile]
  /\ LOCK_open = NoThread
  /\ protect_against_global_read_lock = 0
  /\ th = [t \in Threads |-> Blank]
  /\ bad_unlock = FALSE
  /\ entry_store = store
  /\ frm_params = InitialFrmParams(store)
  /\ ResolveUnused
  /\ frm_query = NoStatement /\ cv = NoStatement
  /\ iv = NoStatement /\ cs = NoStatement
  /\ \E node \in NodeKinds, sql_command \in {SQLCOM_INSERT, SQLCOM_UPDATE},
        select_limit \in {0, 1}, updatable_views_with_limit \in BOOLEAN,
        key_info \in KeyLists, trans \in Translations :
       kv = [pc |-> "called", node |-> node, sql_command |-> sql_command,
             select_limit |-> select_limit,
             updatable_views_with_limit |-> updatable_views_with_limit,
             key_info |-> key_info, trans |-> trans,
             ret |-> FALSE, nwarn |-> 0]

CheckKeyInView ==
  /\ kv.pc = "called"
  /\ LET r == check_key_in_view(kv)
     IN kv' = [kv EXCEPT !.pc = "returned", !.ret = r.ret, !.nwarn = r.nwarn]
  /\ UNCHANGED <<lifecycle_vars, resolve_vars, open_vars, iv, cs>>

NextKey == CheckKeyInView

SpecKey == InitKey /\ [][NextKey]_vars

\* view->field_translation is 0: the view was not merged
NullTranslation == <<>>
\* the list the caller gives, with the items it already holds
CallerLists == {<<>>, <<"c">>, <<"c", "d">>}

InsertResult(ret, list, err) == [ret |-> ret, list |-> list, err |-> err]
\* lines 1101-1112: the loop from the i-th item on
RECURSIVE InsertFrom(_, _, _)
InsertFrom(list, trans, i) ==
  IF i > Len(trans) THEN InsertResult(FALSE, list, "none")
  ELSE IF filed_for_view_update(trans[i]) # NoField
    THEN InsertFrom(Append(list, filed_for_view_update(trans[i])), trans, i + 1)
  ELSE InsertResult(TRUE, list, "NonUpdatableColumn")

\* insert_view_fields: the value returned, the list, the error given
insert_view_fields(list, field_translation) ==
  IF field_translation = NullTranslation THEN InsertResult(FALSE, list, "none")
  ELSE InsertFrom(list, field_translation, 1)

InitInsert ==
  /\ store = [n \in Names |-> NoFile]
  /\ LOCK_open = NoThread
  /\ protect_against_global_read_lock = 0
  /\ th = [t \in Threads |-> Blank]
  /\ bad_unlock = FALSE
  /\ entry_store = store
  /\ frm_params = InitialFrmParams(store)
  /\ ResolveUnused
  /\ frm_query = NoStatement /\ cv = NoStatement
  /\ kv = NoStatement /\ cs = NoStatement
  /\ \E list \in CallerLists, trans \in Translations \cup {NullTranslation} :
       iv = [pc |-> "called", list |-> list, entry_list |-> list,
             field_translation |-> trans, ret |-> FALSE, err |-> "none"]

InsertViewFields ==
  /\ iv.pc = "called"
  /\ LET r == insert_view_fields(iv.list, iv.field_translation)
     IN iv' = [iv EXCEPT !.pc = "returned", !.list = r.list, !.ret = r.ret,
                         !.err = r.err]
  /\ UNCHANGED <<lifecycle_vars, resolve_vars, open_vars, kv, cs>>

NextInsert == InsertViewFields

SpecInsert == InitInsert /\ [][NextInsert]_vars

(***************************************************************************)
(* view_checksum, lines 1129-1138.  The node holds the query loaded from   *)
(* the .frm and the md5 parameter: the text of the checksum (named by its  *)
(* first 32 characters) and its length.  calc_md5 gives the 32 characters  *)
(* of the digest of the query.                                             *)
(***************************************************************************)
\* the length of the text of a digest (lines 474 and 1132)
MD5Length == 32

HA_ADMIN_OK == "HA_ADMIN_OK"
HA_ADMIN_NOT_IMPLEMENTED == "HA_ADMIN_NOT_IMPLEMENTED"
HA_ADMIN_WRONG_CHECKSUM == "HA_ADMIN_WRONG_CHECKSUM"

Queries == {"q1", "q2", "q3"}
\* the digest of each query, and a text that is the digest of none
Digests == {"md5(q1)", "md5(q2)", "md5(q3)", "other"}
calc_md5(query) ==
  CASE query = "q1" -> "md5(q1)" [] query = "q2" -> "md5(q2)" [] OTHER -> "md5(q3)"
\* the lengths md5.length may have: none, one short, exact, one more
Md5Lengths == {0, MD5Length - 1, MD5Length, MD5Length + 1}

\* strncmp(md5, str, 32) == 0: the text holds the 32 characters of the digest
SameFirst32(md5, stored) ==
  stored.length >= MD5Length /\ stored.str = md5

\* a test that does not look at the length of the stored checksum
NoChecksumNoLength(node) == node.view = NoLex
\* line 1132: the node is no view or its checksum is not of 32 characters
NoChecksum(node) == node.view = NoLex \/ node.md5.length # MD5Length

view_checksum(node) ==
  IF NoChecksum(node) THEN HA_ADMIN_NOT_IMPLEMENTED
  ELSE IF SameFirst32(calc_md5(node.query), node.md5) THEN HA_ADMIN_OK
  ELSE HA_ADMIN_WRONG_CHECKSUM

InitChecksum ==
  /\ store = [n \in Names |-> IF n = "v1" THEN ViewFile(1) ELSE NoFile]
  /\ LOCK_open = NoThread
  /\ protect_against_global_read_lock = 0
  /\ th = [t \in Threads |-> Blank]
  /\ bad_unlock = FALSE
  /\ entry_store = store
  /\ frm_params = InitialFrmParams(store)
  /\ ResolveUnused
  /\ frm_query = NoStatement /\ cv = NoStatement
  /\ kv = NoStatement /\ iv = NoStatement
  /\ \E view \in {NoLex, 1}, query \in Queries, str \in Digests,
        length \in Md5Lengths :
       cs = [pc |-> "called", view |-> view, query |-> query,
             md5 |-> [str |-> str, length |-> length], ret |-> "none"]

ViewChecksum ==
  /\ cs.pc = "called"
  /\ cs' = [cs EXCEPT !.pc = "returned", !.ret = view_checksum(cs)]
  /\ UNCHANGED <<lifecycle_vars, resolve_vars, open_vars, kv, iv>>

NextChecksum == ViewChecksum

SpecChecksum == InitChecksum /\ [][NextChecksum]_vars

(***************************************************************************)
(* The lifecycle properties.                                               *)
(***************************************************************************)
\* thread t returns from its call in this step
Returns(t) == th'[t] # th[t] /\ th'[t].pc = "done"
\* thread t is inside a call
InFlight(t) == ~AtRest(t)
\* the names a call in flight works on
NamesOf(r) ==
  IF r.op = "create" THEN {r.name}
  ELSE {r.rest[i] : i \in 1..Len(r.rest)}

(* C1: in any sequence of create/alter/drop calls, a create_or_alter call  *)
(* that returns success leaves the persisted revision of its name at the   *)
(* revision persisted when the call began plus 1 (1 when there was no      *)
(* view), and one that returns an error leaves it unchanged.               *)
C1_RevisionSequence ==
  [][\A t \in Threads :
       (Returns(t) /\ th'[t].op = "create") =>
         LET n == th'[t].name
         IN IF th'[t].ret = "ok"
              THEN store'[n] = ViewFile(CurrentRevision(entry_store'[n]) + 1)
              ELSE store'[n] = entry_store'[n]]_vars

(* C2: concurrent ALTER VIEW calls on one existing view: between the read  *)
(* of the old revision and the write of the new record of a call the       *)
(* record is not changed by another call; every call succeeds and persists *)
(* a revision no other call persisted; two calls on revision 1 persist     *)
(* revisions 2 and 3.                                                      *)
C2_ConcurrentAlter ==
  /\ \A t \in Threads :
       th[t].pc = "reg_write" => th[t].revision = store["v1"].revision
  /\ \A t \in Threads :
       th[t].pc = "done" =>
         /\ th[t].ret = "ok" /\ th[t].dirty
         /\ th[t].revision \in 2..store["v1"].revision
  /\ \A t1, t2 \in Threads :
       (t1 # t2 /\ th[t1].pc = "done" /\ th[t2].pc = "done") =>
         /\ th[t1].revision # th[t2].revision
         /\ store["v1"].revision >= 3
         /\ store["v1"].revision = 3 => {th[t1].revision, th[t2].revision} = {2, 3}

\* both calls are over: one persisted revision 2, the other revision 3
C2_Witness ==
  /\ th["t1"].pc = "done" /\ th["t2"].pc = "done"
  /\ th["t1"].revision = 3 /\ th["t2"].revision = 2
  /\ store["v1"] = ViewFile(3)

(* C3: at most one CREATE/ALTER/DROP on a given name is in flight at any   *)
(* time.                                                                   *)
C3_OneInFlightPerName ==
  \A t1, t2 \in Threads :
    (t1 # t2 /\ InFlight(t1) /\ InFlight(t2)) =>
      NamesOf(th[t1]) \cap NamesOf(th[t2]) = {}

(* C4: every exit path of create_or_alter and of drop has released every   *)
(* lock it acquired exactly once: a thread holds each lock at most once,   *)
(* holds none when its call has returned, LOCK_open is held exactly by the *)
(* thread that locked it, the global read lock bracket counts the threads  *)
(* inside it, and no unlock is made by a thread that does not hold the     *)
(* mutex.                                                                  *)
C4_LocksReleased ==
  /\ ~bad_unlock
  /\ \A t \in Threads :
       /\ th[t].open_held \in {0, 1}
       /\ th[t].grl_held \in {0, 1}
       /\ AtRest(t) => th[t].open_held = 0 /\ th[t].grl_held = 0
       /\ th[t].open_held = 1 <=> LOCK_open = t
  /\ protect_against_global_read_lock =
       Cardinality({t \in Threads : th[t].grl_held = 1})

\* a drop left by the err label, and a create left after the register
\* failed, with nothing held
C4_Witness ==
  /\ th["t1"].pc = "done" /\ th["t1"].ret = "error"
  /\ th["t1"].err \in {"NoSuchView", "CheckOptionRequiresUpdatable"}
  /\ LOCK_open = NoThread /\ protect_against_global_read_lock = 0

(* C5: a create_or_alter call that returns an error, whatever the step     *)
(* that failed, leaves the store as it was when the call began.            *)
C5_ErrorLeavesStore ==
  \A t \in Threads :
    (th[t].pc = "done" /\ th[t].op = "create" /\ th[t].ret = "error") =>
      store = entry_store /\ ~th[t].dirty

\* a create that failed in mysql_register_view, after the checks passed
C5_Witness ==
  /\ th["t1"].pc = "done" /\ th["t1"].op = "create" /\ th["t1"].ret = "error"
  /\ th["t1"].err \in {"CheckOptionRequiresUpdatable", "WriteFailed"}

(* C6: a drop call over a list of names that returns an error leaves the   *)
(* store as it was when the call began.                                    *)
C6_DropAllOrNothing ==
  \A t \in Threads :
    (th[t].pc = "done" /\ th[t].op = "drop" /\ th[t].ret = "error") =>
      store = entry_store

C8_DropAbsentName ==
  [][\A t \in Threads :
       (th[t].pc = "drop_body" /\ th'[t] # th[t]) =>
         LET r == th[t]
             r1 == th'[t]
         IN /\ (store[Head(r.rest)].kind = "none" /\ r.if_exists) =>
                 /\ r1.nwarn = r.nwarn + 1
                 /\ store' = store
                 /\ IF Tail(r.rest) = <<>>
                      THEN r1.pc = "done" /\ r1.ret = "ok"
                      ELSE r1.pc = "drop_lock" /\ r1.rest = Tail(r.rest)
            /\ (store[Head(r.rest)].kind = "none" /\ ~r.if_exists) =>
                 /\ r1.pc = "done" /\ r1.ret = "error" /\ r1.err = "NoSuchView"
                 /\ store' = store
            /\ (r.if_exists /\ r1.pc = "done" /\ r1.ret = "error") =>
                 r1.err = "DeleteFailed"]_vars

\* a DROP VIEW IF EXISTS that skipped a name and succeeded
C8_Witness ==
  /\ th["t1"].pc = "done" /\ th["t1"].op = "drop"
  /\ th["t1"].ret = "ok" /\ th["t1"].nwarn >= 1

(* C9: for a name that exists and is not a view, drop fails with           *)
(* WrongObjectType for either value of if_exists, and the object is not    *)
(* deleted.                                                                *)
C9_DropNonView ==
  [][\A t \in Threads :
       (th[t].pc = "drop_body" /\ th'[t] # th[t]
        /\ store[Head(th[t].rest)].kind \in {"table", "short"}) =>
         /\ th'[t].pc = "done" /\ th'[t].ret = "error"
         /\ th'[t].err = "WrongObjectType"
         /\ store' = store]_vars

(***************************************************************************)
(* The properties of mysql_make_view.                                      *)
(***************************************************************************)
(* C10: a call of mysql_make_view on a node that already carries a view    *)
(* returns 0, calls neither parser->parse nor yyparse, and leaves the      *)
(* node, the links of the statement's table list, its select list and the  *)
(* rest of its LEX, and the thread's lex, options and character set as     *)
(* they were; whatever the number of such calls, the shape is the one the  *)
(* first resolution made.                                                  *)
C10_ResolvedIsNoOp ==
  [][(mk'.calls # mk.calls /\ table.view # NoLex) =>
       /\ mk'.ret = 0 /\ mk'.pc = "idle"
       /\ mk'.nparse = mk.nparse /\ mk'.nyyparse = mk.nyyparse
       /\ UNCHANGED <<table, old_lex, heap, thd>>]_vars

\* the third call on the node; the first resolved it as a merged view
C10_Witness ==
  /\ mk.pc = "idle" /\ mk.calls = 3 /\ mk.ret = 0
  /\ mk.nparse = 1 /\ mk.nyyparse = 1
  /\ table.view = 1 /\ table.effective_algorithm = VIEW_ALGORITHM_MERGE
  /\ thd.lex = NoLex

\* a call of mysql_make_view on an unresolved node returns in this step
Resolves ==
  \/ mk.pc = "yyparse" /\ mk'.pc = "idle"
  \/ mk.pc = "idle" /\ mk'.pc = "idle" /\ mk'.calls # mk.calls /\ table.view = NoLex
\* the two terminal states of a node
Merged(tb) ==
  tb.view # NoLex /\ tb.effective_algorithm = VIEW_ALGORITHM_MERGE /\ tb.derived = Null
Materialized(tb) ==
  tb.view # NoLex /\ tb.effective_algorithm = VIEW_ALGORITHM_TMPTABLE /\ tb.derived # Null

(* C11, as stated: every resolution of an unresolved node that returns 0   *)
(* leaves the node MERGED or MATERIALIZED, and every one that returns 1    *)
(* leaves it without a view and without a derived unit.                    *)
C11_TerminalStates ==
  [][Resolves =>
       IF mk'.ret = 0
         THEN Merged(table') \/ Materialized(table')
         ELSE table'.view = NoLex /\ table'.derived = Null]_vars

(* C11, amended: the same for a node that is not a prelocking placeholder; *)
(* the resolution of a placeholder returns 0 with the view attached and    *)
(* its tables linked, and the node in neither terminal state: its          *)
(* effective algorithm is left undefined.                                  *)
C11_TerminalStatesButPlaceholder ==
  [][Resolves =>
       IF mk'.ret = 0
         THEN IF table.prelocking_placeholder
                THEN /\ table'.view # NoLex
                     /\ table'.effective_algorithm = VIEW_ALGORITHM_UNDEFINED
                     /\ table'.derived = Null
                ELSE /\ Merged(table') \/ Materialized(table')
                     /\ ~(Merged(table') /\ Materialized(table'))
         ELSE table'.view = NoLex /\ table'.derived = Null]_vars

\* a placeholder resolved: success, and no terminal state
C11_Witness ==
  /\ mk.pc = "idle" /\ mk.calls = 1 /\ mk.ret = 0 /\ mk.nyyparse = 1
  /\ table.prelocking_placeholder /\ table.view = 1
  /\ table.effective_algorithm = VIEW_ALGORITHM_UNDEFINED

\* the statement that uses the view does not let it be merged
CallSiteDisallowsMerge ==
  \/ table.in_outer_unit /\ ~old_lex.can_use_merged
  \/ old_lex.can_not_use_merged

(* C12: the resolution of a node (no prelocking placeholder) that returns  *)
(* 0 leaves it MATERIALIZED iff the stored algorithm is TMPTABLE, or the   *)
(* query of the view cannot be merged, or the statement using the view     *)
(* does not let it be merged, and MERGED otherwise; an effective algorithm *)
(* once chosen is chosen again by every later resolution of the node.      *)
C12_MergeDecision ==
  [][/\ (Resolves /\ mk'.ret = 0 /\ ~table.prelocking_placeholder) =>
          LET materialize == \/ view_frm.algorithm = VIEW_ALGORITHM_TMPTABLE
                             \/ ~view_frm.can_be_merged
                             \/ CallSiteDisallowsMerge
          IN /\ Materialized(table') <=> materialize
             /\ Merged(table') <=> ~materialize
     /\ table.effective_algorithm # VIEW_ALGORITHM_UNDEFINED =>
          table'.effective_algorithm = table.effective_algorithm]_vars

\* the second resolution of a mergeable view in a statement that does not
\* let it be merged: materialized
C12_Witness ==
  /\ mk.pc = "idle" /\ mk.ret = 0 /\ mk.nyyparse = 2
  /\ Materialized(table)
  /\ view_frm.algorithm # VIEW_ALGORITHM_TMPTABLE /\ view_frm.can_be_merged
  /\ CallSiteDisallowsMerge

(* C13: in every state a node marked updatable has the effective algorithm *)
(* MERGE; a node with the effective algorithm TMPTABLE is not updatable    *)
(* and its effective check option is NONE; a MERGED node is updatable      *)
(* exactly when the stored definition's updatable flag is set.             *)
C13_UpdatableIsMerged ==
  /\ table.updatable => table.effective_algorithm = VIEW_ALGORITHM_MERGE
  /\ table.effective_algorithm = VIEW_ALGORITHM_TMPTABLE =>
       ~table.updatable /\ table.effective_with_check = VIEW_CHECK_NONE
  /\ Merged(table) =>
       /\ table.updatable <=> view_frm.updatable_view
       /\ table.effective_with_check = view_frm.with_check

\* a view stored as updatable, with a check option, materialized
C13_Witness ==
  /\ mk.pc = "idle" /\ mk.ret = 0 /\ Materialized(table)
  /\ view_frm.updatable_view /\ view_frm.with_check # VIEW_CHECK_NONE
  /\ ~table.updatable /\ table.effective_with_check = VIEW_CHECK_NONE

\* the tables reached from t through next_global, at most fuel of them
RECURSIVE ListFrom(_, _, _)
ListFrom(next, t, fuel) ==
  IF t = Null \/ fuel = 0 THEN <<>>
  ELSE <<t>> \o ListFrom(next, next[t], fuel - 1)
\* the global table list of the statement
GlobalList(hp, ol) ==
  ListFrom(hp.next_global, ol.query_tables, Cardinality(DOMAIN hp.next_global))
\* every prev_global designates the pointer that points to the table
BackLinksConsistent(hp, list) ==
  \A i \in 1..Len(list) :
    hp.prev_global[list[i]] = IF i = 1 THEN QueryTables(0) ELSE list[i - 1]

(* C15: a call of mysql_make_view that returns 0 after parsing the view    *)
(* leaves the statement's global table list equal to: the list before the  *)
(* call up to and including the node, then the tables of the view in their *)
(* order, then the rest of the list before the call; no table occurs       *)
(* twice; every prev_global designates the next_global (or query_tables)   *)
(* pointing to its table; query_tables_last designates the last table.     *)
C15_TablesAfterNode ==
  [][(mk.pc = "yyparse" /\ mk'.pc = "idle" /\ mk'.ret = 0) =>
       LET old == GlobalList(heap, old_lex)
           new == GlobalList(heap', old_lex')
           p == CHOOSE i \in 1..Len(old) : old[i] = table.id
           view_tables == [i \in 1..view_frm.tables |-> ViewTable(i, mk.calls)]
       IN /\ new = SubSeq(old, 1, p) \o view_tables \o SubSeq(old, p + 1, Len(old))
          /\ \A i, j \in 1..Len(new) : new[i] = new[j] => i = j
          /\ BackLinksConsistent(heap', new)
          /\ old_lex'.query_tables_last = new[Len(new)]]_vars

\* a view of two tables resolved in the middle of a list of three
C15_Witness ==
  /\ mk.pc = "idle" /\ mk.ret = 0 /\ mk.calls = 1 /\ table.view = 1
  /\ GlobalList(heap, old_lex) =
       <<OuterTable(1), OuterTable(2), ViewTable(1, 1), ViewTable(2, 1), OuterTable(3)>>
  /\ table.id = OuterTable(2)

\* the names reached from the names of set through the queries of views
RECURSIVE ReachedFrom(_, _, _)
ReachedFrom(set, files, queries) ==
  LET more == set \cup UNION { { queries[n][i] : i \in 1..Len(queries[n]) } :
                               n \in { m \in set : files[m].kind = "view" } }
  IN IF more = set THEN set ELSE ReachedFrom(more, files, queries)

(* C16: when the select of CREATE / ALTER VIEW reaches, by its own tables  *)
(* or through the queries of the views among them, a view that has the     *)
(* name given to the statement, the call returns an error and leaves every *)
(* .frm file, its parameters and its query as they were.                   *)
C16_SelfReference ==
  [][\A t \in DOMAIN cv :
       (cv[t].pc \in {"idle", "done"} /\ cv'[t].pc # "idle" /\ cv'[t] # cv[t]) =>
         ((/\ store[cv'[t].name].kind = "view"
           /\ cv'[t].name \in
                ReachedFrom({ cv'[t].from[i] : i \in 1..Len(cv'[t].from) },
                            store, frm_query))
            => /\ cv'[t].pc = "done" /\ cv'[t].ret = "error"
               /\ store' = store /\ frm_params' = frm_params
               /\ frm_query' = frm_query)]_vars

\* the view was reached through another view only
C16_Witness ==
  /\ cv["t1"].pc = "done" /\ cv["t1"].err = "SelfReference"
  /\ \A i \in 1..Len(cv["t1"].from) : cv["t1"].from[i] # cv["t1"].name
  /\ store[cv["t1"].name].kind = "view"

\* the fields the columns of the view refer to directly
ExposedFields(trans) ==
  { trans[k] : k \in 1..Len(trans) } \ {"expr"}
\* the fields of a key or of the table
FieldsOf(seq) == { seq[i] : i \in 1..Len(seq) }

(* C17: check_key_in_view returns FALSE without a warning for a base       *)
(* table, for INSERT and for a statement without LIMIT.  Otherwise it      *)
(* returns FALSE without a warning when the fields the view exposes hold   *)
(* every part of some unique key without a nullable part, or every field   *)
(* of the table; when they do not, it returns FALSE with one warning if    *)
(* updatable_views_with_limit is set and TRUE if it is not.                *)
C17_KeyInView ==
  kv # NoStatement =>
    (kv.pc = "returned" =>
       LET exposed == ExposedFields(kv.trans)
           covered ==
             \/ \E i \in 1..Len(kv.key_info) :
                  /\ HA_NOSAME \in kv.key_info[i].flags
                  /\ HA_NULL_PART_KEY \notin kv.key_info[i].flags
                  /\ FieldsOf(kv.key_info[i].key_part) \subseteq exposed
             \/ FieldsOf(TableFields) \subseteq exposed
       IN IF kv.node = "table" \/ kv.sql_command = SQLCOM_INSERT \/ kv.select_limit = 0
            THEN kv.ret = FALSE /\ kv.nwarn = 0
          ELSE IF covered THEN kv.ret = FALSE /\ kv.nwarn = 0
          ELSE IF kv.updatable_views_with_limit THEN kv.ret = FALSE /\ kv.nwarn = 1
          ELSE kv.ret = TRUE /\ kv.nwarn = 0)

\* the second key of the table is the usable one; strict mode
C17_Witness ==
  /\ kv # NoStatement
  /\ kv.pc = "returned" /\ kv.ret = FALSE /\ kv.nwarn = 0
  /\ kv.node = "view" /\ kv.sql_command = SQLCOM_UPDATE /\ kv.select_limit = 1
  /\ ~kv.updatable_views_with_limit
  /\ kv.key_info = <<Key({HA_NOSAME, HA_NULL_PART_KEY}, <<"b">>), Key({HA_NOSAME}, <<"a">>)>>
  /\ kv.trans = <<"a", "expr">>

(* C19: a call of mysql_create_view that has returned invalidated the      *)
(* query cache once when it wrote the definition and the revision written  *)
(* is above 1, and not at all otherwise: not when nothing was written, not *)
(* when revision 1 was written.                                            *)
C19_InvalidateWhenPersisted ==
  \A t \in Threads :
    (th[t].pc = "done" /\ th[t].op = "create") =>
      th[t].ninval = (IF th[t].dirty /\ th[t].revision > 1 THEN 1 ELSE 0)

(* C20: a step that leaves a view a view (an ALTER that wrote the file)    *)
(* leaves the timestamp written in its .frm as it was.                     *)
C20_TimestampPreserved ==
  [][\A n \in Names :
       (store[n].kind = "view" /\ store'[n].kind = "view") =>
         frm_params'[n].timestamp = frm_params[n].timestamp]_vars

(* C21: when mysql_register_view writes the definition, the updatable      *)
(* flag written is FALSE if the algorithm asked for is TMPTABLE, or the     *)
(* select cannot be merged, or a table of the main select is a view that   *)
(* is not updatable or a schema table, or a table of the main select or    *)
(* any join it is embedded in is an outer join; it is TRUE if none of      *)
(* these holds and the table is not used again in a subquery.              *)
C21_UpdatableFlag ==
  [][\A t \in Threads : th[t].pc = "reg_write" =>
       \A d \in Definitions :
         \A write_fails, reported \in BOOLEAN, timestamp \in Times :
           (RegisterWrite(t, d, write_fails, reported, timestamp)
              /\ store' # store) =>
             LET excluded ==
                   \/ d.algorithm = VIEW_ALGORITHM_TMPTABLE
                   \/ ~d.can_be_merged
                   \/ \E i \in 1..Len(d.tables) :
                        LET tbl == TableOfKind(d.tables[i])
                        IN \/ (tbl.view /\ ~tbl.updatable_view)
                           \/ tbl.schema_table
                           \/ \E up \in 1..Len(tbl.outer_join) : tbl.outer_join[up]
                 flag == frm_params'[th[t].name].updatable_view
             IN /\ excluded => ~flag
                /\ (~excluded /\ ~d.in_subquery) => flag]_vars

\* a view over a table in a nested join inside an outer join was written
C21_Witness ==
  /\ th["t1"].pc = "done" /\ th["t1"].op = "create"
  /\ th["t1"].ret = "ok" /\ th["t1"].dirty
  /\ ~frm_params[th["t1"].name].updatable_view
  /\ frm_params[th["t1"].name].algorithm = VIEW_ALGORITHM_UNDEFINED
  /\ frm_params[th["t1"].name].with_check = VIEW_CHECK_NONE

(* C22: view_checksum returns HA_ADMIN_NOT_IMPLEMENTED exactly when the    *)
(* node is no view or its stored checksum is not 32 characters long;       *)
(* otherwise HA_ADMIN_OK exactly when the digest of the loaded query is    *)
(* the stored checksum, and HA_ADMIN_WRONG_CHECKSUM when it is not; the    *)
(* node and the .frm files are as they were.                               *)
C22_Checksum ==
  [][(cs # NoStatement /\ cs.pc = "called" /\ cs'.pc = "returned") =>
       /\ (cs'.ret = HA_ADMIN_NOT_IMPLEMENTED) <=>
            (cs.view = NoLex \/ cs.md5.length # MD5Length)
       /\ (cs'.ret = HA_ADMIN_OK) <=>
            (/\ cs.view # NoLex /\ cs.md5.length = MD5Length
             /\ cs.md5.str = calc_md5(cs.query))
       /\ cs'.ret \in {HA_ADMIN_NOT_IMPLEMENTED, HA_ADMIN_OK, HA_ADMIN_WRONG_CHECKSUM}
       /\ cs'.view = cs.view /\ cs'.query = cs.query /\ cs'.md5 = cs.md5
       /\ store' = store /\ frm_params' = frm_params]_vars

\* a view whose stored checksum is the digest of another query
C22_Witness ==
  /\ cs # NoStatement
  /\ cs.pc = "returned" /\ cs.ret = HA_ADMIN_WRONG_CHECKSUM
  /\ cs.view # NoLex /\ cs.md5.length = MD5Length
  /\ cs.query = "q1" /\ cs.md5.str = "md5(q2)"

(* C23: a .frm file whose first bytes are not the marker of a view (the    *)
(* file of a table, or a file shorter than the header) is classified as    *)
(* no view by mysql_frm_type, so that no step of mysql_drop_view removes   *)
(* or changes it.                                                          *)
C23_DropOnlyViews ==
  [][\A t \in Threads : th[t].pc = "drop_body" =>
       \A n \in Names :
         (FileExists(store[n]) /\ ~HeaderIsViewMarker(store[n])) =>
           /\ mysql_frm_type(store[n], FALSE) = FRMTYPE_TABLE
           /\ store'[n] = store[n]]_vars

(* C24: a call of mysql_create_view that passes every check before the    *)
(* test of duplicate names gives the error of a duplicate column name      *)
(* exactly when the select list, with the names of the view list put on    *)
(* its items in order, has fewer different names than items; the call then *)
(* returns an error at once and the .frm files are as they were.  No       *)
(* other call gives that error.                                            *)
C24_DuplicateNames ==
  [][\A t \in Threads : (AtRest(t) /\ th'[t] # th[t] /\ th'[t].op = "create") =>
       \A s \in Statements : \A mode \in {th'[t].mode}, name \in {th'[t].name} :
         CreateViewValidate(t, mode, name, s) =>
           LET names == IF s.view_list = <<>> THEN s.items ELSE s.view_list
               duplicate ==
                 Cardinality({ names[i] : i \in 1..Len(names) }) < Len(names)
               reached ==
                 /\ ~s.proc_or_result /\ ~s.derived_or_vars
                 /\ s.create_priv /\ (mode = VIEW_CREATE_NEW \/ s.drop_priv)
                 /\ s.table_access /\ s.subq_access /\ s.open_ok
                 /\ ~s.tmp_table /\ ~s.self_ref /\ s.prepare_ok
                 /\ (s.view_list = <<>> \/ Len(s.view_list) = Len(s.items))
           IN /\ (th'[t].err = "DuplicateColumnName") <=> (reached /\ duplicate)
              /\ (reached /\ duplicate) =>
                   /\ th'[t].pc = "done" /\ th'[t].ret = "error"
                   /\ store' = store /\ frm_params' = frm_params]_vars

\* a call has given the error of a duplicate column name
C24_Witness ==
  /\ th["t1"].pc = "done" /\ th["t1"].op = "create"
  /\ th["t1"].err = "DuplicateColumnName" /\ th["t1"].ret = "error"
  /\ ~th["t1"].dirty /\ store = entry_store

(* C25: a call of mysql_create_view that has returned success wrote the    *)
(* .frm file of its view during the call.                                  *)
C25_SuccessMeansWritten ==
  \A t \in Threads :
    (th[t].pc = "done" /\ th[t].op = "create" /\ th[t].ret = "ok") =>
      /\ th[t].dirty
      /\ store[th[t].name].kind = "view"
      /\ store[th[t].name] # entry_store[th[t].name]

(* C26: in every state, no view is reached from the tables of its own     *)
(* stored query through the stored queries of views: the views of the      *)
(* .frm files refer to each other without a cycle.                         *)
C26_NoCycle ==
  \A n \in Names :
    store[n].kind = "view" =>
      n \notin ReachedFrom({ frm_query[n][i] : i \in 1..Len(frm_query[n]) },
                          store, frm_query)

(* C27: when a call of mysql_create_view has returned, with success or    *)
(* with an error, the TABLE_LIST of the view it unlinked at entry is       *)
(* linked back as the first table of the statement.                        *)
C27_ViewLinkedBack ==
  \A t \in Threads :
    (th[t].pc = "done" /\ th[t].op = "create") => th[t].linked

(* C28: when a call of mysql_make_view returns, thd->lex is the LEX of the  *)
(* statement again and thd->options and the client character set are what  *)
(* they were at entry; when it returns an error, the node has no view and   *)
(* the global table list of the statement is the list it was at entry,     *)
(* with no table of the view in it.                                        *)
C28_ErrorRestoresStatement ==
  /\ [](mk # NoStatement =>
          (mk.pc = "idle" =>
             thd.lex = NoLex /\ thd.character_set_client = "client"))
  /\ [][(/\ mk # NoStatement /\ mk'.pc = "idle"
          /\ (mk.pc = "yyparse" \/ mk'.calls # mk.calls)) =>
          /\ (mk.pc = "yyparse") => (thd'.options = mk.options)
          /\ (mk.pc = "idle") => (thd'.options = thd.options)
          /\ (mk'.ret = 1) =>
               /\ table'.view = NoLex
               /\ GlobalList(heap', old_lex') = GlobalList(heap, old_lex)
               /\ \A i \in 1..MaxViewTables :
                    \A j \in 1..Len(GlobalList(heap', old_lex')) :
                      GlobalList(heap', old_lex')[j] # ViewTable(i, mk'.calls)]_vars

(* C18: insert_view_fields on a node without field translation returns    *)
(* FALSE and leaves the list as it was; on a merged view whose every       *)
(* column is a field it returns FALSE and the list is the list given       *)
(* followed by the field of each column in the order of the columns; when  *)
(* some column is no field it returns TRUE with the error and the list is  *)
(* as it was given.                                                        *)
C18_InsertFields ==
  iv # NoStatement =>
    (iv.pc = "returned" =>
       LET trans == iv.field_translation
       IN IF trans = NullTranslation
            THEN iv.ret = FALSE /\ iv.list = iv.entry_list
          ELSE IF \A k \in 1..Len(trans) : trans[k] # "expr"
            THEN /\ iv.ret = FALSE
                 /\ iv.list = iv.entry_list \o trans
          ELSE /\ iv.ret = TRUE /\ iv.err = "NonUpdatableColumn"
               /\ iv.list = iv.entry_list)

(***************************************************************************)
(* The properties of the stored definition.                                *)
(***************************************************************************)
\* the parameters of a view's file are those of a well-formed definition
WellFormedParameters(p) ==
  /\ p.updatable_view => p.algorithm # VIEW_ALGORITHM_TMPTABLE
  /\ p.with_check # VIEW_CHECK_NONE => p.updatable_view

(* C14: every view file in the store has: updatable implies an algorithm   *)
(* other than TMPTABLE, and a check option other than NONE implies         *)
(* updatable; and a step of mysql_register_view on a definition with a     *)
(* check option that it classifies as not updatable returns the error      *)
(* CheckOptionRequiresUpdatable and writes nothing.                        *)
C14_PersistedRecord ==
  /\ [](\A n \in Names :
          store[n].kind = "view" => WellFormedParameters(frm_params[n]))
  /\ [][\A t \in Threads : th[t].pc = "reg_write" =>
          \A d \in Definitions :
            (d.check # VIEW_CHECK_NONE /\ ~UpdatableView(d)) =>
              \A write_fails, reported \in BOOLEAN, timestamp \in Times :
                RegisterWrite(t, d, write_fails, reported, timestamp) =>
                  /\ th'[t].pc = "done" /\ th'[t].ret = "error"
                  /\ th'[t].err = "CheckOptionRequiresUpdatable"
                  /\ store' = store /\ frm_params' = frm_params]_vars

\* a view written with a check option, and a later definition of it that
\* was refused for its check option
C14_Witness ==
  /\ th["t1"].pc = "done" /\ th["t1"].err = "CheckOptionRequiresUpdatable"
  /\ store[th["t1"].name].kind = "view"
  /\ frm_params[th["t1"].name].with_check # VIEW_CHECK_NONE
  /\ store[th["t1"].name].revision > 1
============================================================================
